---- MODULE Spec2Model ----
(***************************************************************************)
(* Smart Media update pipeline of the Bonsai client                        *)
(* (bonsai-integration/packages/client-bonsai/src/ClientService.ts).       *)
(*                                                                         *)
(* The Express handlers and the queued handlePostUpdate job are async      *)
(* functions on one event loop: the code between two awaits runs           *)
(* atomically, and at every await any other handler may run.  Each action  *)
(* below applies one awaited operation and then runs the synchronous code  *)
(* that follows it, up to the next awaited operation.                      *)
(***************************************************************************)
EXTENDS Integers, Sequences, FiniteSets, TLC

\* ---------------------------------------------------------------- bounds
MaxTime == 1          \* the clock (unix seconds, scaled) runs 0..MaxTime
MaxVersions == 1      \* generations a post may go through
MaxTemplateData == 1  \* times a post's templateData may be rewritten
MaxCredits == 1       \* credit balance of an account is 0..MaxCredits
NumReqs == 2          \* HTTP requests in flight at the same time
NumJobs == 2          \* job slots of the task queue

PostIds == {"p1"}
Accounts == {"alice", "bob"}   \* Lens accounts (req.user.sub)
Creators == {"alice"}          \* the accounts that create posts and hold credits
ApiKey == "apikey"    \* a caller authenticated by API key: req.user is undefined
Reqs == 1..NumReqs
Jobs == 1..NumJobs

\* SmartMediaStatus; a record read from the cache has no status
ACTIVE == "active"
FAILED == "failed"
DISABLED == "disabled"
NoStatus == "undefined"

\* utils/constants DEFAULT_FREEZE_TIME, scaled to the model's clock
DEFAULT_FREEZE_TIME == 0
\* utils/apiCredits minCreditsForUpdate[template], scaled
minCreditsForUpdate == 1

VARIABLES
    mongo,      \* mongo.media: postId -> the persisted document
    redis,      \* redis "post/<postId>": postId -> the cached SmartMedia
    credits,    \* api credits of each account
    processing, \* the task queue's set of postIds with a job in flight
    job,        \* job slot -> the handlePostUpdate invocation running in it
    req,        \* request slot -> the HTTP handler running in it
    now,        \* Math.floor(Date.now() / 1000)
    hnd,        \* a template handler invocation (bonsaiGarden / rpgGame)
    gen,        \* a generateObjectDeprecated call (core/src/generation.ts)
    previewCount, \* redis "create_preview_count:<creator>"
    preq,       \* request slot -> the preview / create-from-preview request in it
    previews,   \* this.cache: the previews cached by agentId
    calc,       \* an application of a pure function (trimTokens, vote weight, rank)
    img,        \* one generateImage call
    npc         \* the game map's NPC phrase loop

vars == <<mongo, redis, credits, processing, job, req, now, hnd, gen, previewCount, preq,
          previews, calc, img, npc>>

\* the state of the update pipeline, and the state of the other components
pipeline == <<mongo, redis, credits, processing, job, req, now>>
aux == <<hnd, gen, previewCount, preq, previews, calc, img, npc>>

\* ------------------------------------------------------------ SmartMedia
\* The fields of a SmartMedia record the pipeline reads or writes.  A missing
\* document / cache entry / getPost result is the record with exists = FALSE.
NoMedia ==
    [exists |-> FALSE, creator |-> "", status |-> NoStatus, versions |-> <<>>,
     versionCount |-> 0, updatedAt |-> 0, templateData |-> 0]

\* formatSmartMedia(creator, category, template, templateData, postId, uri):
\* createdAt = updatedAt = now, no versionCount (read as `versionCount || 0`)
formatSmartMedia(creator, t) ==
    [exists |-> TRUE, creator |-> creator, status |-> NoStatus, versions |-> <<>>,
     versionCount |-> 0, updatedAt |-> t, templateData |-> 0]

\* getPost: the cached record when there is one, else the mongo document
\* (projected to its last 10 versions, which no caller reads)
getPost(p) == IF redis[p].exists THEN redis[p] ELSE [mongo[p] EXCEPT !.versions = <<>>]

\* cachePost / removePostFromCache
cachePost(p, media) == redis' = [redis EXCEPT ![p] = media]
removePostFromCache(p) == redis' = [redis EXCEPT ![p] = NoMedia]

\* mongo.media.updateOne({postId}, {$set: {status}}): no document, no change
setStatus(p, s) ==
    mongo' = [mongo EXCEPT ![p] =
                 IF @.exists THEN [@ EXCEPT !.status = s] ELSE @]

\* ---------------------------------------------------------------- credits
\* canUpdate(creator, template): the balance covers the template's minimum
canUpdate(creator) == credits[creator] >= minCreditsForUpdate

\* cost of a usage record under the per-model cost table: nothing is free but
\* an empty usage
usageCost(resp) == IF resp.promptTokens + resp.imagesCreated > 0 THEN 1 ELSE 0

\* decrementCredits(creator, model, tokens, images, ...)
decrementCredits(creator, resp) ==
    credits' = [credits EXCEPT ![creator] =
                   IF @ >= usageCost(resp) THEN @ - usageCost(resp) ELSE 0]

\* ------------------------------------------------------- handler responses
\* a persistVersionUri (the url cacheJsonStorj answered)
VersionUri == "uri"

\* A TemplateHandlerResponse, or no response (isNull).  videosCreated = -1 is
\* a totalUsage without that field (TemplateUsage declares none).
NullResponse ==
    [isNull |-> TRUE, metadata |-> FALSE, refreshMetadata |-> FALSE,
     refreshCache |-> FALSE, persistVersionUri |-> FALSE,
     updatedTemplateData |-> FALSE, promptTokens |-> 0, imagesCreated |-> 0,
     videosCreated |-> -1]

\* `return { metadata: undefined, totalUsage }` of bonsaiGarden and rpgGame
SkipResponse == [NullResponse EXCEPT !.isNull = FALSE]

\* the same answer from a handler whose totalUsage carries videosCreated: 0
SkipResponseVideo == [SkipResponse EXCEPT !.videosCreated = 0]

\* bonsaiGarden: `return { persistVersionUri, totalUsage, refreshMetadata }`
BonsaiResponse(uri) ==
    [SkipResponse EXCEPT !.refreshMetadata = TRUE, !.persistVersionUri = uri,
                         !.promptTokens = 1, !.imagesCreated = 1]

\* rpgGame: metadata, refreshMetadata, updatedTemplateData, persistVersionUri
RpgResponse(uri) ==
    [SkipResponse EXCEPT !.metadata = TRUE, !.refreshMetadata = TRUE,
                         !.persistVersionUri = uri,
                         !.updatedTemplateData = TRUE, !.promptTokens = 1]

ContentResponses ==
    {BonsaiResponse(u) : u \in BOOLEAN} \cup {RpgResponse(u) : u \in BOOLEAN}

Responses == {NullResponse, SkipResponse, SkipResponseVideo} \cup ContentResponses

\* ------------------------------------------------------------------- slots
IdleJob ==
    [pc |-> "idle", post |-> "", force |-> FALSE, data |-> NoMedia,
     resp |-> NullResponse, outcome |-> ""]

\* a handlePostUpdate invocation that has returned and awaits its release;
\* outcome names the return it took (each logs its own line)
DoneJob(p, outcome) == [IdleJob EXCEPT !.pc = "done", !.post = p, !.outcome = outcome]

\* creator and status are those of the `data` the handler got from getPost
IdleReq ==
    [pc |-> "idle", post |-> "", user |-> "", force |-> FALSE, creator |-> "",
     status |-> NoStatus]

\* no handler invocation, no generation call, no preview under way
IdleHandler ==
    [pc |-> "idle", template |-> "", force |-> FALSE, stale |-> FALSE,
     hasData |-> FALSE, minThreshold |-> 0, latest |-> <<>>, comments |-> -1,
     attempts |-> 0,
     imageCalls |-> 0, promptTokens |-> 0, completionTokens |-> 0,
     totalTokens |-> 0, imagesCreated |-> 0, imagesSucceeded |-> 0,
     usages |-> <<>>,
     result |-> NullResponse]
IdleGen ==
    [pc |-> "idle", fn |-> "", config |-> "", empty |-> FALSE, calls |-> 0,
     failures |-> 0, retryDelay |-> 0, waits |-> <<>>, result |-> ""]
Unset == -1
IdlePreview ==
    [pc |-> "idle", creator |-> "", premium |-> FALSE, admitted |-> FALSE,
     usage |-> NullResponse, agentId |-> 0, post |-> ""]

\* agentIds are fresh UUIDs: the model gives out 1, 2, ... MaxAgents
MaxAgents == 3
AgentIds == 1..MaxAgents

\* no preview cached and no agentId given out yet; commits counts, for each
\* agentId, the creates that took its preview; no function applied
NoPreviews == [cached |-> {}, issued |-> 0, commits |-> [a \in AgentIds |-> 0]]
IdleCalc ==
    [fn |-> "idle", done |-> FALSE,
     context |-> <<>>, maxTokens |-> 0, fails |-> FALSE, out |-> <<>>, threw |-> FALSE,
     author |-> "", upvoters |-> <<>>, collectors |-> {}, hasToken |-> FALSE,
     balance |-> <<>>, votes |-> 0,
     weights |-> <<>>, ranked |-> <<>>, top |-> 0]

\* what generateImage answers: `{ success, data?, error? }`
NoImageResult == [success |-> FALSE, error |-> "", data |-> <<>>]

\* no generateImage call
IdleImage ==
    [pc |-> "idle", hasSettings |-> FALSE, apiKey |-> FALSE, hasFetch |-> FALSE,
     modelId |-> FALSE, inpaint |-> FALSE, requests |-> 0, body |-> "",
     images |-> <<>>, result |-> NoImageResult]

MaxNpcs == 3         \* NPCs on the map
MaxBatches == 4      \* updateAllPhrases batches the loop starts
Npcs == 1..MaxNpcs
BatchIds == 1..MaxBatches

\* the map before onInit
IdleMap ==
    [pc |-> "idle", version |-> "", started |-> 0, awaited |-> 0,
     inflight |-> [b \in BatchIds |-> {}]]

AuxIdle ==
    /\ hnd = IdleHandler
    /\ gen = IdleGen
    /\ previewCount = [a \in Creators |-> Unset]
    /\ preq = [r \in Reqs |-> IdlePreview]
    /\ previews = NoPreviews
    /\ calc = IdleCalc
    /\ img = IdleImage
    /\ npc = IdleMap

Init ==
    /\ AuxIdle
    /\ mongo = [p \in PostIds |-> NoMedia]
    /\ redis = [p \in PostIds |-> NoMedia]
    /\ credits \in [Creators -> 0..MaxCredits]
    /\ processing = {}
    /\ job = [j \in Jobs |-> IdleJob]
    /\ req = [r \in Reqs |-> IdleReq]
    /\ now = 0

\* ------------------------------------------------------------ environment
\* the clock advances
Tick ==
    /\ now < MaxTime
    /\ now' = now + 1
    /\ UNCHANGED <<mongo, redis, credits, processing, job, req, aux>>

\* an account buys credits (outside this service)
TopUp(a) ==
    /\ credits[a] < MaxCredits
    /\ credits' = [credits EXCEPT ![a] = @ + 1]
    /\ UNCHANGED <<mongo, redis, processing, job, req, now, aux>>

\* an account's credits are spent by a generation outside this post's update
\* job (decrementCredits after a preview or for another of its posts)
SpendCredits(a) ==
    /\ credits[a] > 0
    /\ credits' = [credits EXCEPT ![a] = @ - 1]
    /\ UNCHANGED <<mongo, redis, processing, job, req, now, aux>>

\* -------------------------------------------------------- POST /post/create
\* with params: template registered, canUpdate, handler produces the first
\* page, then cachePost(media) and insertOne({...media, versions: [],
\* status: ACTIVE}).  findOne/updateOne see the first document of a postId,
\* so an insert for a postId that has one changes nothing they read.
CreatePost(p, creator) ==
    /\ canUpdate(creator)
    /\ cachePost(p, formatSmartMedia(creator, now))
    /\ mongo' = [mongo EXCEPT ![p] =
                    IF @.exists THEN @
                    ELSE [formatSmartMedia(creator, now) EXCEPT !.status = ACTIVE]]
    /\ UNCHANGED <<credits, processing, job, req, now, aux>>

\* ------------------------------------------------------------- task queue
\* tasks.isProcessing(postId)
isProcessing(p) == p \in processing

\* the free job slot a new job runs in
FreeSlot == CHOOSE j \in Jobs : job[j].pc = "idle" /\ \A k \in Jobs : job[k].pc = "idle" => j <= k

\* tasks.add that starts the job without looking at the postIds in flight
tasksAdd_Unchecked(p, force) ==
    /\ \E j \in Jobs : job[j].pc = "idle"
    /\ processing' = processing \cup {p}
    /\ job' = [job EXCEPT ![FreeSlot] = [IdleJob EXCEPT !.pc = "getPost", !.post = p, !.force = force]]

\* tasks.add(postId, () => handlePostUpdate(postId, forceUpdate)): a postId
\* with a job in flight is not accepted; otherwise it is marked and the job
\* starts (its first await is getPost)
tasksAdd(p, force) ==
    IF isProcessing(p)
    THEN UNCHANGED <<processing, job>>
    ELSE /\ \E j \in Jobs : job[j].pc = "idle"
         /\ processing' = processing \cup {p}
         /\ job' = [job EXCEPT ![FreeSlot] = [IdleJob EXCEPT !.pc = "getPost", !.post = p, !.force = force]]

\* a queue that forgets the job and keeps the postId
JobRelease_KeepsKey(j) ==
    /\ job[j].pc = "done"
    /\ job' = [job EXCEPT ![j] = IdleJob]
    /\ UNCHANGED <<mongo, redis, credits, processing, req, now, aux>>

\* the queue releases the postId when the job's promise settles
JobRelease(j) ==
    /\ job[j].pc = "done"
    /\ processing' = processing \ {job[j].post}
    /\ job' = [job EXCEPT ![j] = IdleJob]
    /\ UNCHANGED <<mongo, redis, credits, req, now, aux>>

\* the slot a new request is served in (0: every slot is taken)
FreeReq ==
    IF \E r \in Reqs : req[r].pc = "idle"
    THEN CHOOSE r \in Reqs : req[r].pc = "idle" /\ \A k \in Reqs : req[k].pc = "idle" => r <= k
    ELSE 0

\* ------------------------------------------------ POST /post/:postId/update
\* answered 204 while the post is processing
UpdateProcessing(r, p) ==
    /\ r = FreeReq
    /\ isProcessing(p)
    /\ UNCHANGED vars

\* the update endpoint without its isProcessing check
UpdateRequest_NoBusyCheck(r, p, user, force) ==
    /\ r = FreeReq
    /\ req' = [req EXCEPT ![r] = [IdleReq EXCEPT !.pc = "getPost", !.post = p, !.user = user, !.force = force]]
    /\ UNCHANGED <<mongo, redis, credits, processing, job, now, aux>>

\* not processing: the handler goes on to `await this.getPost(postId)`
UpdateRequest(r, p, user, force) ==
    /\ r = FreeReq
    /\ ~isProcessing(p)
    /\ req' = [req EXCEPT ![r] = [IdleReq EXCEPT !.pc = "getPost", !.post = p, !.user = user, !.force = force]]
    /\ UNCHANGED <<mongo, redis, credits, processing, job, now, aux>>

\* the same without the 401 for a forced update by another account
UpdateGetPost_AnyForcer(r) ==
    /\ req[r].pc = "getPost"
    /\ LET data == getPost(req[r].post) IN
       req' = [req EXCEPT ![r] =
                  IF ~data.exists THEN IdleReq
                  ELSE [@ EXCEPT !.pc = "canUpdate", !.user = "", !.creator = data.creator,
                                  !.status = data.status]]
    /\ UNCHANGED <<mongo, redis, credits, processing, job, now, aux>>

\* getPost answers: 404 without data, 401 for a forced update by another
\* account, else `await canUpdate(data.creator, data.template)`
UpdateGetPost(r) ==
    /\ req[r].pc = "getPost"
    /\ LET data == getPost(req[r].post) IN
       req' = [req EXCEPT ![r] =
                  IF ~data.exists THEN IdleReq
                  ELSE IF req[r].force /\ data.creator # req[r].user THEN IdleReq
                  ELSE [@ EXCEPT !.pc = "canUpdate", !.user = "", !.creator = data.creator,
                                  !.status = data.status]]
    /\ UNCHANGED <<mongo, redis, credits, processing, job, now, aux>>

\* canUpdate answers: 403 without credits, else tasks.add and 200
UpdateCanUpdate(r) ==
    /\ req[r].pc = "canUpdate"
    /\ IF canUpdate(req[r].creator)
       THEN tasksAdd(req[r].post, req[r].force)
       ELSE UNCHANGED <<processing, job>>
    /\ req' = [req EXCEPT ![r] = IdleReq]
    /\ UNCHANGED <<mongo, redis, credits, now, aux>>

\* ----------------------------------------------- POST /post/:postId/disable
\* the same without the 401 for another account
DisableRequest_AnyAccount(r, p, user) ==
    /\ r = FreeReq
    /\ LET data == getPost(p) IN
       req' = [req EXCEPT ![r] =
                  IF ~data.exists THEN IdleReq
                  ELSE [IdleReq EXCEPT !.pc = "disableDb", !.post = p, !.user = user]]
    /\ UNCHANGED <<mongo, redis, credits, processing, job, now, aux>>

\* getPost answers: 404 without data, 401 for another account, else the
\* handler goes on to the updateOne that sets DISABLED
DisableRequest(r, p, user) ==
    /\ r = FreeReq
    /\ LET data == getPost(p) IN
       req' = [req EXCEPT ![r] =
                  IF ~data.exists \/ data.creator # user THEN IdleReq
                  ELSE [IdleReq EXCEPT !.pc = "disableDb", !.post = p, !.user = user]]
    /\ UNCHANGED <<mongo, redis, credits, processing, job, now, aux>>

DisableDb(r) ==
    /\ req[r].pc = "disableDb"
    /\ setStatus(req[r].post, DISABLED)
    /\ req' = [req EXCEPT ![r].pc = "disableCache"]
    /\ UNCHANGED <<redis, credits, processing, job, now, aux>>

DisableCache(r) ==
    /\ req[r].pc = "disableCache"
    /\ removePostFromCache(req[r].post)
    /\ req' = [req EXCEPT ![r] = IdleReq]
    /\ UNCHANGED <<mongo, credits, processing, job, now, aux>>

\* ------------------------------------------------------- handlePostUpdate
\* what the job's steps leave alone besides its own slot
JobStep(j, next) == job' = [job EXCEPT ![j] = next]

\* `const data = await this.getPost(postId)`; no data: return
JobGetPost(j) ==
    /\ job[j].pc = "getPost"
    /\ LET data == getPost(job[j].post) IN
       JobStep(j, IF data.exists
                  THEN [job[j] EXCEPT !.pc = "fetchPost", !.data = data]
                  ELSE DoneJob(job[j].post, "notFound"))
    /\ UNCHANGED <<mongo, redis, credits, processing, req, now, aux>>

\* `const post = await fetchPostById(postId)`: the Lens post is deleted or not
JobFetchPost(j) ==
    /\ job[j].pc = "fetchPost"
    /\ \E isDeleted \in BOOLEAN :
          JobStep(j, [job[j] EXCEPT !.pc = IF isDeleted THEN "deletedDb" ELSE "canUpdate"])
    /\ UNCHANGED <<mongo, redis, credits, processing, req, now, aux>>

\* a deletion that is recorded as a failure
JobDeletedDb_Failed(j) ==
    /\ job[j].pc = "deletedDb"
    /\ setStatus(job[j].post, FAILED)
    /\ JobStep(j, [job[j] EXCEPT !.pc = "deletedCache"])
    /\ UNCHANGED <<redis, credits, processing, req, now, aux>>

\* deleted post: updateOne sets DISABLED ...
JobDeletedDb(j) ==
    /\ job[j].pc = "deletedDb"
    /\ setStatus(job[j].post, DISABLED)
    /\ JobStep(j, [job[j] EXCEPT !.pc = "deletedCache"])
    /\ UNCHANGED <<redis, credits, processing, req, now, aux>>

\* ... removePostFromCache(data); return
JobDeletedCache(j) ==
    /\ job[j].pc = "deletedCache"
    /\ removePostFromCache(job[j].post)
    /\ JobStep(j, DoneJob(job[j].post, "deleted"))
    /\ UNCHANGED <<mongo, credits, processing, req, now, aux>>

\* the job without its credit check
JobCanUpdate_Unchecked(j) ==
    /\ job[j].pc = "canUpdate"
    /\ JobStep(j, [job[j] EXCEPT !.pc = "handler"])
    /\ UNCHANGED <<mongo, redis, credits, processing, req, now, aux>>

\* `if (!await canUpdate(data.creator, data.template)) return`
JobCanUpdate(j) ==
    /\ job[j].pc = "canUpdate"
    /\ JobStep(j, IF canUpdate(job[j].data.creator)
                  THEN [job[j] EXCEPT !.pc = "handler"]
                  ELSE DoneJob(job[j].post, "noCredits"))
    /\ UNCHANGED <<mongo, redis, credits, processing, req, now, aux>>

\* the freeze test with >= for >
FreezeDue_AtThreshold(t, updatedAt) == t - updatedAt >= DEFAULT_FREEZE_TIME

\* `(Math.floor(Date.now() / 1000)) - data.updatedAt > DEFAULT_FREEZE_TIME`
FreezeDue(t, updatedAt) == t - updatedAt > DEFAULT_FREEZE_TIME

\* the `else if` that takes a response for "no updates"
noUpdates(resp) ==
    /\ ~resp.refreshMetadata
    /\ resp.promptTokens = 0
    /\ resp.imagesCreated = 0
    /\ resp.videosCreated = 0

\* needsStatusUpdate, hasNewVersion
needsStatusUpdate(data) == data.status = DISABLED \/ data.status = FAILED
hasNewVersion(resp) == resp.persistVersionUri

\* the same without the `if (!response)` return
afterHandler_NoNullCheck(data, resp, t) ==
    IF noUpdates(resp)
    THEN IF FreezeDue(t, data.updatedAt) THEN "freezeDb" ELSE "done"
    ELSE IF needsStatusUpdate(data) \/ hasNewVersion(resp) THEN "updateDb" ELSE "debit"

\* the code from the handler's return to the next await: where the job goes
afterHandler(data, resp, t) ==
    IF resp.isNull \/ noUpdates(resp)
    THEN IF FreezeDue(t, data.updatedAt) THEN "freezeDb" ELSE "done"
    ELSE IF needsStatusUpdate(data) \/ hasNewVersion(resp) THEN "updateDb" ELSE "debit"

\* what a handler can answer for this media: a generation only within the
\* model's bounds
CanAnswer(p, data, resp) ==
    /\ resp \in ContentResponses => data.versionCount < MaxVersions
    /\ resp.persistVersionUri => Len(mongo[p].versions) < MaxVersions
    /\ resp.updatedTemplateData => data.templateData < MaxTemplateData

\* `const response = await template.handler(runtime, data, undefined, {forceUpdate})`
JobHandler(j) ==
    /\ job[j].pc = "handler"
    /\ \E resp \in Responses :
          /\ CanAnswer(job[j].post, job[j].data, resp)
          /\ LET next == afterHandler(job[j].data, resp, now) IN
             JobStep(j, IF next = "done"
                        THEN DoneJob(job[j].post, IF resp.isNull THEN "noResponse" ELSE "noUpdates")
                        ELSE [job[j] EXCEPT !.pc = next, !.resp = resp])
    /\ UNCHANGED <<mongo, redis, credits, processing, req, now, aux>>

\* freeze: updateOne sets FAILED ...
JobFreezeDb(j) ==
    /\ job[j].pc = "freezeDb"
    /\ setStatus(job[j].post, FAILED)
    /\ JobStep(j, [job[j] EXCEPT !.pc = "freezeCache"])
    /\ UNCHANGED <<redis, credits, processing, req, now, aux>>

\* ... removePostFromCache(data); return
JobFreezeCache(j) ==
    /\ job[j].pc = "freezeCache"
    /\ removePostFromCache(job[j].post)
    /\ JobStep(j, DoneJob(job[j].post, "frozen"))
    /\ UNCHANGED <<mongo, credits, processing, req, now, aux>>

\* the update document: $push versions and $set versionCount for a new
\* version, then `update.$set = { status: ACTIVE }` when the status needs an
\* update, which replaces the $set built before it.
updateDoc(doc, data, resp) ==
    [doc EXCEPT
        !.versions = IF hasNewVersion(resp) THEN Append(@, VersionUri) ELSE @,
        !.versionCount = IF hasNewVersion(resp) /\ ~needsStatusUpdate(data)
                         THEN data.versionCount + 1 ELSE @,
        !.status = IF needsStatusUpdate(data) THEN ACTIVE ELSE @]

\* `await this.mongo.media?.updateOne({ postId }, update)`
JobUpdateDb(j) ==
    /\ job[j].pc = "updateDb"
    /\ mongo' = [mongo EXCEPT ![job[j].post] =
                    IF @.exists THEN updateDoc(@, job[j].data, job[j].resp) ELSE @]
    /\ JobStep(j, [job[j] EXCEPT !.pc = "debit"])
    /\ UNCHANGED <<redis, credits, processing, req, now, aux>>

\* the code from decrementCredits to the next await
afterDebit(resp) ==
    IF ~(resp.metadata \/ resp.refreshMetadata) /\ ~resp.refreshCache THEN "done"
    ELSE IF resp.metadata \/ resp.refreshMetadata THEN "refresh"
    ELSE "cache"

\* a debit of one credit whatever usage the handler reported
JobDebit_FlatCharge(j) ==
    /\ job[j].pc = "debit"
    /\ credits' = [credits EXCEPT ![job[j].data.creator] = IF @ >= 1 THEN @ - 1 ELSE 0]
    /\ LET next == afterDebit(job[j].resp) IN
       JobStep(j, IF next = "done" THEN DoneJob(job[j].post, "skipped")
                  ELSE [job[j] EXCEPT !.pc = next])
    /\ UNCHANGED <<mongo, redis, processing, req, now, aux>>

\* `await decrementCredits(data.creator, ..., totalUsage...)`
JobDebit(j) ==
    /\ job[j].pc = "debit"
    /\ decrementCredits(job[j].data.creator, job[j].resp)
    /\ LET next == afterDebit(job[j].resp) IN
       JobStep(j, IF next = "done" THEN DoneJob(job[j].post, "skipped")
                  ELSE [job[j] EXCEPT !.pc = next])
    /\ UNCHANGED <<mongo, redis, processing, req, now, aux>>

\* refreshMetadataFor / refreshMetadataStatusFor: the job's status is FAILED
\* or not
JobRefresh(j) ==
    /\ job[j].pc = "refresh"
    /\ \E failed \in BOOLEAN :
          JobStep(j, IF failed THEN [job[j] EXCEPT !.pc = "refreshFailDb"]
                     ELSE [job[j] EXCEPT !.pc = "cache"])
    /\ UNCHANGED <<mongo, redis, credits, processing, req, now, aux>>

\* a refresh failure put under the freeze threshold's grace
JobRefreshFailDb_Grace(j) ==
    /\ job[j].pc = "refreshFailDb"
    /\ IF FreezeDue(now, job[j].data.updatedAt)
       THEN setStatus(job[j].post, FAILED)
       ELSE UNCHANGED mongo
    /\ JobStep(j, DoneJob(job[j].post, "refreshFailed"))
    /\ UNCHANGED <<redis, credits, processing, req, now, aux>>

\* refresh failed: updateOne sets FAILED; return
JobRefreshFailDb(j) ==
    /\ job[j].pc = "refreshFailDb"
    /\ setStatus(job[j].post, FAILED)
    /\ JobStep(j, DoneJob(job[j].post, "refreshFailed"))
    /\ UNCHANGED <<redis, credits, processing, req, now, aux>>

\* the record the job caches: templateData and updatedAt advanced, versions
\* and status left out, versionCount + 1
cachedMedia(data, resp, t) ==
    [data EXCEPT
        !.templateData = IF resp.updatedTemplateData THEN @ + 1 ELSE @,
        !.updatedAt = t,
        !.versions = <<>>,
        !.versionCount = @ + 1,
        !.status = NoStatus]

\* `await this.cachePost({...data, ...})`
JobCache(j) ==
    /\ job[j].pc = "cache"
    /\ cachePost(job[j].post, cachedMedia(job[j].data, job[j].resp, now))
    /\ JobStep(j, DoneJob(job[j].post, "updated"))
    /\ UNCHANGED <<mongo, credits, processing, req, now, aux>>

\* ------------------------------------------------------------ specification
Next ==
    \/ Tick
    \/ \E a \in Creators : TopUp(a)
    \/ \E a \in Creators : SpendCredits(a)
    \/ \E p \in PostIds, a \in Creators : CreatePost(p, a)
    \/ \E r \in Reqs, p \in PostIds : UpdateProcessing(r, p)
    \/ \E r \in Reqs, p \in PostIds : UpdateRequest(r, p, ApiKey, FALSE)
    \/ \E r \in Reqs, p \in PostIds, a \in Accounts : UpdateRequest(r, p, a, TRUE)
    \/ \E r \in Reqs : UpdateGetPost(r)
    \/ \E r \in Reqs : UpdateCanUpdate(r)
    \/ \E r \in Reqs, p \in PostIds, a \in Accounts : DisableRequest(r, p, a)
    \/ \E r \in Reqs : DisableDb(r)
    \/ \E r \in Reqs : DisableCache(r)
    \/ \E j \in Jobs : JobGetPost(j)
    \/ \E j \in Jobs : JobFetchPost(j)
    \/ \E j \in Jobs : JobDeletedDb(j)
    \/ \E j \in Jobs : JobDeletedCache(j)
    \/ \E j \in Jobs : JobCanUpdate(j)
    \/ \E j \in Jobs : JobHandler(j)
    \/ \E j \in Jobs : JobFreezeDb(j)
    \/ \E j \in Jobs : JobFreezeCache(j)
    \/ \E j \in Jobs : JobUpdateDb(j)
    \/ \E j \in Jobs : JobDebit(j)
    \/ \E j \in Jobs : JobRefresh(j)
    \/ \E j \in Jobs : JobRefreshFailDb(j)
    \/ \E j \in Jobs : JobCache(j)
    \/ \E j \in Jobs : JobRelease(j)

Spec == Init /\ [][Next]_vars

\* ---------------------------------------------------------------------------
\* The update jobs under fair scheduling
\* ---------------------------------------------------------------------------

\* handlePostUpdate has no try/catch: a store, a collaborator or the handler
\* call that rejects at any await rejects the job's promise
JobThrow(j) ==
    /\ job[j].pc \notin {"idle", "done"}
    /\ JobStep(j, DoneJob(job[j].post, "threw"))
    /\ UNCHANGED <<mongo, redis, credits, processing, req, now, aux>>

\* the next step of job j: the operation it awaits settles, or the queue
\* sees its promise settled
JobProgress(j) ==
    \/ JobGetPost(j) \/ JobFetchPost(j) \/ JobDeletedDb(j) \/ JobDeletedCache(j)
    \/ JobCanUpdate(j) \/ JobHandler(j) \/ JobFreezeDb(j) \/ JobFreezeCache(j)
    \/ JobUpdateDb(j) \/ JobDebit(j) \/ JobRefresh(j) \/ JobRefreshFailDb(j)
    \/ JobCache(j) \/ JobRelease(j)

NextLive ==
    \/ Tick
    \/ \E a \in Creators : TopUp(a)
    \/ \E p \in PostIds, a \in Creators : CreatePost(p, a)
    \/ \E r \in Reqs, p \in PostIds : UpdateProcessing(r, p)
    \/ \E r \in Reqs, p \in PostIds : UpdateRequest(r, p, ApiKey, FALSE)
    \/ \E r \in Reqs : UpdateGetPost(r)
    \/ \E r \in Reqs : UpdateCanUpdate(r)
    \/ \E j \in Jobs : JobGetPost(j)
    \/ \E j \in Jobs : JobFetchPost(j)
    \/ \E j \in Jobs : JobDeletedDb(j)
    \/ \E j \in Jobs : JobDeletedCache(j)
    \/ \E j \in Jobs : JobCanUpdate(j)
    \/ \E j \in Jobs : JobHandler(j)
    \/ \E j \in Jobs : JobFreezeDb(j)
    \/ \E j \in Jobs : JobFreezeCache(j)
    \/ \E j \in Jobs : JobUpdateDb(j)
    \/ \E j \in Jobs : JobDebit(j)
    \/ \E j \in Jobs : JobRefresh(j)
    \/ \E j \in Jobs : JobRefreshFailDb(j)
    \/ \E j \in Jobs : JobCache(j)
    \/ \E j \in Jobs : JobThrow(j)
    \/ \E j \in Jobs : JobRelease(j)

\* every awaited operation of a job settles, and the queue handles every
\* settled job
SpecLive == Init /\ [][NextLive]_vars /\ \A j \in Jobs : WF_vars(JobProgress(j))

\* ============================================================================
\* Template handlers (bonsaiGarden.handler, rpgGame.handler) invoked for an
\* update: handler(runtime, media, undefined, { forceUpdate }).  The inputs are
\* the media (stale or not, with templateData or not, its
\* minCommentUpdateThreshold) and forceUpdate; the awaited calls answer or throw.
\* ============================================================================
MaxComments == 2     \* latest comments of a post (getLatestComments)
MaxThreshold == 2    \* minCommentUpdateThreshold is 0 (not set) .. MaxThreshold

BONSAI_GARDEN == "bonsai_garden"
RPG_GAME == "rpg_game"
TemplateNames == {BONSAI_GARDEN, RPG_GAME}

DEFAULT_MIN_ENGAGEMENT_UPDATE_THREHOLD == 1
MAX_ATTEMPTS == 2

\* `templateData.minCommentUpdateThreshold || DEFAULT_MIN_ENGAGEMENT_UPDATE_THREHOLD`
threshold(minThreshold) ==
    IF minThreshold # 0 THEN minThreshold ELSE DEFAULT_MIN_ENGAGEMENT_UPDATE_THREHOLD

\* the gate that only a stale post passes
gateOpen_StaleOnly(stale, force) == stale

\* `isMediaStale(media) || options?.forceUpdate`
gateOpen(stale, force) == stale \/ force

\* the loop test that lets one more attempt in
moreAttempts_Inclusive(attempts) == attempts <= MAX_ATTEMPTS

\* `while (attempts < MAX_ATTEMPTS)`
moreAttempts(attempts) == attempts < MAX_ATTEMPTS

\* the usage a generation call (generateText, generateObjectDeprecated with
\* returnUsage) can report
CallUsages ==
    {[promptTokens |-> 1, completionTokens |-> 2, totalTokens |-> 3],
     [promptTokens |-> 2, completionTokens |-> 0, totalTokens |-> 2]}

\* a total that keeps only the last call's usage
addUsage_Overwrite(h, u) ==
    [h EXCEPT !.promptTokens = u.promptTokens,
              !.completionTokens = u.completionTokens,
              !.totalTokens = u.totalTokens,
              !.usages = Append(@, u)]

\* `totalUsage.promptTokens += usage.promptTokens;
\*  totalUsage.completionTokens += usage.completionTokens;
\*  totalUsage.totalTokens += usage.totalTokens` (usages: the calls made)
addUsage(h, u) ==
    [h EXCEPT !.promptTokens = @ + u.promptTokens,
              !.completionTokens = @ + u.completionTokens,
              !.totalTokens = @ + u.totalTokens,
              !.usages = Append(@, u)]

\* the handler returns `result` (NullResponse: it returns undefined)
Returned(result) == [hnd EXCEPT !.pc = "returned", !.result = result]

\* `return { persistVersionUri, totalUsage, refreshMetadata: refresh }`
bonsaiReturn(h, uri) ==
    [SkipResponse EXCEPT !.refreshMetadata = TRUE, !.persistVersionUri = uri,
                         !.promptTokens = h.promptTokens,
                         !.imagesCreated = h.imagesCreated]

\* `return { preview, metadata, refreshMetadata: refresh, updatedTemplateData,
\*           persistVersionUri, totalUsage }`
rpgReturn(h, uri) ==
    [SkipResponse EXCEPT !.metadata = TRUE, !.refreshMetadata = TRUE,
                         !.persistVersionUri = uri, !.updatedTemplateData = TRUE,
                         !.promptTokens = h.promptTokens]

InitHandler ==
    /\ mongo = [p \in PostIds |-> NoMedia]
    /\ redis = [p \in PostIds |-> NoMedia]
    /\ credits = [a \in Creators |-> 0]
    /\ processing = {}
    /\ job = [j \in Jobs |-> IdleJob]
    /\ req = [r \in Reqs |-> IdleReq]
    /\ now = 0
    /\ gen = IdleGen
    /\ previewCount = [a \in Creators |-> Unset]
    /\ preq = [r \in Reqs |-> IdlePreview]
    /\ previews = NoPreviews
    /\ calc = IdleCalc
    /\ img = IdleImage
    /\ npc = IdleMap
    /\ \E t \in TemplateNames, force, stale, hasData \in BOOLEAN, m \in 0..MaxThreshold :
          hnd = [IdleHandler EXCEPT !.pc = "start", !.template = t, !.force = force,
                                    !.stale = stale, !.hasData = hasData,
                                    !.minThreshold = m]

\* what a handler step leaves alone
HandlerStep(next) ==
    hnd' = next /\ UNCHANGED <<pipeline, gen, previewCount, preq, previews, calc, img, npc>>

\* no templateData: return; the gate: a post neither stale nor forced is
\* skipped, else the handler awaits fetchAllCommentsFor
HStart ==
    /\ hnd.pc = "start"
    /\ HandlerStep(IF ~hnd.hasData THEN Returned(NullResponse)
                   ELSE IF gateOpen(hnd.stale, hnd.force)
                        THEN [hnd EXCEPT !.pc = "comments"]
                        ELSE Returned(SkipResponse))

\* a comment (a Post of the social graph) written by account a: the handlers
\* read its `author.address` and its `metadata.content`
Comment(a) == [id |-> a, author |-> [address |-> a], metadata |-> [content |-> a]]

\* the latest comments a post can have, by their authors
LatestComments == UNION {[1..k -> Accounts] : k \in 0..MaxComments}

\* the iteratee of `uniqBy(comments, 'comment.author.address')`
UNIQ_BY_PATH == <<"comment", "author", "address">>

\* lodash get(object, path): the value at the path, undefined when a
\* property on the way is missing
RECURSIVE get(_, _)
get(object, path) ==
    IF path = <<>> THEN object
    ELSE IF Head(path) \in DOMAIN object THEN get(object[Head(path)], Tail(path))
    ELSE "undefined"

\* lodash uniqBy(array, path): the first element of every value of the path
RECURSIVE uniqBy(_, _)
uniqBy(array, path) ==
    IF array = <<>> THEN <<>>
    ELSE LET init == uniqBy(SubSeq(array, 1, Len(array) - 1), path)
             last == array[Len(array)]
         IN IF \E i \in 1..Len(init) : get(init[i], path) = get(last, path)
            THEN init ELSE Append(init, last)

\* `comments = uniqBy(getLatestComments(media, allComments),
\*                    'comment.author.address')`, as the comments' authors
uniqueComments(latest) ==
    LET kept == uniqBy([i \in 1..Len(latest) |-> Comment(latest[i])], UNIQ_BY_PATH)
    IN [i \in 1..Len(kept) |-> kept[i].author.address]

\* fetchAllCommentsFor throws (bonsaiGarden: the outer catch; rpgGame: the
\* inner catch, `return`), or answers: the latest comments, made unique;
\* fewer than the threshold: skip
HComments ==
    /\ hnd.pc = "comments"
    /\ \/ HandlerStep(Returned(NullResponse))
       \/ \E latest \in LatestComments :
             LET n == Len(uniqueComments(latest)) IN
             HandlerStep(IF n < threshold(hnd.minThreshold)
                         THEN [Returned(SkipResponse) EXCEPT !.latest = latest, !.comments = n]
                         ELSE [hnd EXCEPT !.pc = "votes", !.latest = latest, !.comments = n])

\* collectors, upvoters and balances of each comment (and, bonsaiGarden, the
\* post's current image): any of the calls throws, or the votes are weighted
HVotes ==
    /\ hnd.pc = "votes"
    /\ \/ HandlerStep(Returned(NullResponse))
       \/ HandlerStep([hnd EXCEPT !.pc = IF hnd.template = BONSAI_GARDEN
                                         THEN "prompt" ELSE "decision"])

\* bonsaiGarden: generateText produces the image prompt; its usage is added
HPrompt ==
    /\ hnd.pc = "prompt"
    /\ \/ HandlerStep(Returned(NullResponse))
       \/ \E u \in CallUsages : HandlerStep([addUsage(hnd, u) EXCEPT !.pc = "image"])

\* bonsaiGarden: generateImage throws, succeeds (break) or fails (attempts++,
\* and after the loop `throw new Error("Failed to generate hero image ...")`);
\* `totalUsage.imagesCreated += 1` follows every call that returned, before
\* `imageResponse.success` is looked at (imagesSucceeded: the calls that
\* returned success)
HImage ==
    /\ hnd.pc = "image"
    /\ \/ HandlerStep([Returned(NullResponse) EXCEPT !.imageCalls = @ + 1])
       \/ HandlerStep([hnd EXCEPT !.pc = "persist", !.imageCalls = @ + 1,
                                  !.imagesCreated = @ + 1,
                                  !.imagesSucceeded = @ + 1])
       \/ LET h == [hnd EXCEPT !.imageCalls = @ + 1, !.imagesCreated = @ + 1,
                               !.attempts = @ + 1] IN
          HandlerStep(IF moreAttempts(h.attempts)
                      THEN [h EXCEPT !.pc = "prompt"]
                      ELSE [h EXCEPT !.pc = "returned", !.result = NullResponse])

\* bonsaiGarden: the previous version goes to storj (or not: no
\* persistVersionUri), the image file is edited (or the edit throws)
HPersist ==
    /\ hnd.pc = "persist"
    /\ \/ HandlerStep(Returned(NullResponse))
       \/ \E uri \in BOOLEAN : HandlerStep(Returned(bonsaiReturn(hnd, uri)))

\* rpgGame: generateObjectDeprecated evaluates the next decision
HDecision ==
    /\ hnd.pc = "decision"
    /\ \/ HandlerStep(Returned(NullResponse))
       \/ \E u \in CallUsages : HandlerStep([addUsage(hnd, u) EXCEPT !.pc = "page"])

\* rpgGame: generateObjectDeprecated writes the next page
HPage ==
    /\ hnd.pc = "page"
    /\ \/ HandlerStep(Returned(NullResponse))
       \/ \E u \in CallUsages : HandlerStep([addUsage(hnd, u) EXCEPT !.pc = "persistRpg"])

\* rpgGame: the previous version goes to storj (or not), updateJson rewrites
\* the post's metadata (or throws)
HPersistRpg ==
    /\ hnd.pc = "persistRpg"
    /\ \/ HandlerStep(Returned(NullResponse))
       \/ \E uri \in BOOLEAN : HandlerStep(Returned(rpgReturn(hnd, uri)))

NextHandler ==
    \/ HStart
    \/ HComments
    \/ HVotes
    \/ HPrompt
    \/ HImage
    \/ HPersist
    \/ HDecision
    \/ HPage
    \/ HPersistRpg

SpecHandler == InitHandler /\ [][NextHandler]_vars


\* ============================================================================
\* core/src/generation.ts: generateText and the wrappers that call it in a
\* `while (true)` loop, parse its response and, when the call threw or the
\* response did not parse, sleep retryDelay ms and double retryDelay.
\* ============================================================================
MaxCalls == 4        \* generateText calls one wrapper invocation makes

INITIAL_RETRY_DELAY == 1000

RECURSIVE Pow2(_)
Pow2(n) == IF n = 0 THEN 1 ELSE 2 * Pow2(n - 1)

RECURSIVE Sum(_)
Sum(seq) == IF seq = <<>> THEN 0 ELSE Head(seq) + Sum(Tail(seq))

\* the functions a caller invokes
Wrappers ==
    {"generateObjectDeprecated", "generateTextArray", "generateObjectArray",
     "generateTrueOrFalse", "generateShouldRespond"}
GenFunctions == Wrappers \cup {"generateText", "generateMessageResponse"}

\* generateMessageResponse: `const maxAttempts = 3`
maxAttempts == 3

\* a loop test that lets a fourth attempt in
moreMessageAttempts_Inclusive(attempts) == attempts <= maxAttempts

\* generateMessageResponse: `while (attempts < maxAttempts)`
moreMessageAttempts(attempts) == attempts < maxAttempts

\* the configuration of the provider the call resolves to
Misconfigurations == {"unsupportedProvider", "missingCredential"}
Configs == {"ok"} \cup Misconfigurations

\* what one generateText call does: an unsupported provider falls to the
\* switch's default and throws, a missing credential makes the provider's
\* client throw; a configured provider throws (provider error) or answers
\* text that the wrapper's parser accepts or not
CallOutcomes(config) ==
    IF config = "ok" THEN {"error", "unparseable", "parsed"} ELSE {"error"}

\* the wrappers that return at once on an empty context
ChecksEmpty(fn) ==
    fn \in {"generateObjectDeprecated", "generateTextArray", "generateObjectArray"}

InitGen ==
    /\ mongo = [p \in PostIds |-> NoMedia]
    /\ redis = [p \in PostIds |-> NoMedia]
    /\ credits = [a \in Creators |-> 0]
    /\ processing = {}
    /\ job = [j \in Jobs |-> IdleJob]
    /\ req = [r \in Reqs |-> IdleReq]
    /\ now = 0
    /\ hnd = IdleHandler
    /\ previewCount = [a \in Creators |-> Unset]
    /\ preq = [r \in Reqs |-> IdlePreview]
    /\ previews = NoPreviews
    /\ calc = IdleCalc
    /\ img = IdleImage
    /\ npc = IdleMap
    /\ \E fn \in GenFunctions, config \in Configs, empty \in BOOLEAN :
          gen = [IdleGen EXCEPT !.pc = "start", !.fn = fn, !.config = config,
                                !.empty = empty]

GenStep(next) ==
    gen' = next /\ UNCHANGED <<pipeline, hnd, previewCount, preq, previews, calc, img, npc>>

\* the function's entry: the empty-context return, `let retryDelay = 1000`
GStart ==
    /\ gen.pc = "start"
    /\ GenStep(IF ChecksEmpty(gen.fn) /\ gen.empty
               THEN [gen EXCEPT !.pc = "returned", !.result = "empty"]
               ELSE [gen EXCEPT !.pc = "call", !.retryDelay = INITIAL_RETRY_DELAY])

\* a wrapper that throws after its third failed attempt
afterFailure_GivesUp(g) ==
    IF g.failures >= 3 THEN [g EXCEPT !.pc = "thrown", !.result = "error"]
    ELSE [g EXCEPT !.pc = "sleep"]

\* a wrapper's `catch (error) { elizaLogger.error(...) }`, falling through to
\* the sleep, as an unparsed response does
afterFailure(g) == [g EXCEPT !.pc = "sleep"]

\* generateMessageResponse after one generateText call: a parsed response is
\* returned; an unparseable one counts an attempt and loops at once; an
\* exception counts an attempt and, if another attempt is left, doubles
\* retryLength and sleeps; after the loop
\* `throw new Error("Failed to generate message response after 3 attempts")`
afterMessageCall(g, outcome) ==
    IF outcome = "parsed" THEN [g EXCEPT !.pc = "returned", !.result = "parsed"]
    ELSE LET f == [g EXCEPT !.failures = @ + 1] IN
         IF ~moreMessageAttempts(f.failures)
         THEN [f EXCEPT !.pc = "thrown", !.result = "error"]
         ELSE IF outcome = "unparseable" THEN f
         ELSE [f EXCEPT !.pc = "backoff", !.retryDelay = @ * 2]

\* one `await generateText(...)` and the code up to the next await:
\* generateText itself rethrows (`catch (error) { ...; throw error }`)
GCall ==
    /\ gen.pc = "call"
    /\ gen.calls < MaxCalls
    /\ \E outcome \in CallOutcomes(gen.config) :
          LET g == [gen EXCEPT !.calls = @ + 1] IN
          GenStep(IF gen.fn = "generateText"
                  THEN IF outcome = "error"
                       THEN [g EXCEPT !.pc = "thrown", !.result = "error"]
                       ELSE [g EXCEPT !.pc = "returned", !.result = "text"]
                  ELSE IF gen.fn = "generateMessageResponse"
                  THEN afterMessageCall(g, outcome)
                  ELSE IF outcome = "parsed"
                       THEN [g EXCEPT !.pc = "returned", !.result = "parsed"]
                       ELSE afterFailure([g EXCEPT !.failures = @ + 1]))

\* a sleep that does not double the delay
afterSleep_FixedDelay(g) == [g EXCEPT !.pc = "call", !.waits = Append(@, g.retryDelay)]

\* `await new Promise((resolve) => setTimeout(resolve, retryDelay));
\*  retryDelay *= 2`
afterSleep(g) ==
    [g EXCEPT !.pc = "call", !.waits = Append(@, g.retryDelay),
              !.retryDelay = @ * 2]

GSleep ==
    /\ gen.pc = "sleep"
    /\ GenStep(afterSleep(gen))

\* generateMessageResponse: `await new Promise((resolve) =>
\* setTimeout(resolve, retryLength))` with the retryLength already doubled
GBackoff ==
    /\ gen.pc = "backoff"
    /\ GenStep([gen EXCEPT !.pc = "call", !.waits = Append(@, gen.retryDelay)])

NextGen ==
    \/ GStart
    \/ GCall
    \/ GSleep
    \/ GBackoff

SpecGen == InitGen /\ [][NextGen]_vars

\* every generateText call settles and every timer fires
SpecGenLive == InitGen /\ [][NextGen]_vars /\ WF_vars(NextGen)


\* ============================================================================
\* POST /post/create-preview and handlePreviewCredits: the free previews of a
\* creator are counted under the redis key create_preview_count:<creator>.
\* ============================================================================
\* utils/constants FREE_GENERATIONS_PER_HOUR, scaled
FREE_GENERATIONS_PER_HOUR == 2

\* the usage a preview's handler can report: none (the handler returned
\* undefined) or that of a generated page
PreviewResponses == {NullResponse, RpgResponse(FALSE)}

InitPreview ==
    /\ mongo = [p \in PostIds |-> NoMedia]
    /\ redis = [p \in PostIds |-> NoMedia]
    /\ credits \in [Creators -> 0..MaxCredits]
    /\ processing = {}
    /\ job = [j \in Jobs |-> IdleJob]
    /\ req = [r \in Reqs |-> IdleReq]
    /\ now = 0
    /\ hnd = IdleHandler
    /\ gen = IdleGen
    /\ previewCount = [a \in Creators |-> Unset]
    /\ preq = [r \in Reqs |-> IdlePreview]
    /\ previews = NoPreviews
    /\ calc = IdleCalc
    /\ img = IdleImage
    /\ npc = IdleMap

\* the slot a new preview request is served in (0: every slot is taken)
FreePreq ==
    IF \E r \in Reqs : preq[r].pc = "idle"
    THEN CHOOSE r \in Reqs : preq[r].pc = "idle" /\ \A k \in Reqs : preq[k].pc = "idle" => r <= k
    ELSE 0

PreviewStep(r, next) ==
    /\ preq' = [preq EXCEPT ![r] = next]
    /\ UNCHANGED <<processing, job, req, now, hnd, gen, calc, img, npc>>

\* the key is set by something other than this service's handlePreviewCredits,
\* which only increments a key it has read
SeedCounter(a) ==
    /\ previewCount[a] = Unset
    /\ previewCount' = [previewCount EXCEPT ![a] = 0]
    /\ UNCHANGED <<pipeline, hnd, gen, preq, previews, calc, img, npc>>

\* the key's expiry (multi.expire(previewKey, 3600)) passes
ExpireCounter(a) ==
    /\ previewCount[a] # Unset
    /\ previewCount' = [previewCount EXCEPT ![a] = Unset]
    /\ UNCHANGED <<pipeline, hnd, gen, preq, previews, calc, img, npc>>

\* the request arrives: a premium template awaits canUpdate, any other goes
\* straight to `await template.handler(runtime, undefined, templateData)`
PreviewRequest(r, creator, premium) ==
    /\ r = FreePreq
    /\ PreviewStep(r, [IdlePreview EXCEPT !.pc = IF premium THEN "canUpdate" ELSE "handler",
                                         !.creator = creator, !.premium = premium])
    /\ UNCHANGED <<mongo, redis, credits, previewCount, previews>>

\* premium: `if (!await canUpdate(creator, templateName))` 403
PreviewCanUpdate(r) ==
    /\ preq[r].pc = "canUpdate"
    /\ PreviewStep(r, IF canUpdate(preq[r].creator)
                      THEN [preq[r] EXCEPT !.pc = "handler", !.admitted = TRUE]
                      ELSE IdlePreview)
    /\ UNCHANGED <<mongo, redis, credits, previewCount, previews>>

\* the handler generates the preview; formatSmartMedia gives the media a
\* fresh agentId and cachePreview(media) sets it in this.cache at once (the
\* `await` of its undefined result only defers what follows)
PreviewHandler(r) ==
    /\ preq[r].pc = "handler"
    /\ previews.issued < MaxAgents
    /\ \E resp \in PreviewResponses :
          PreviewStep(r, [preq[r] EXCEPT !.pc = "cachePreview", !.usage = resp])
    /\ previews' = [previews EXCEPT !.issued = @ + 1,
                                    !.cached = @ \cup {previews.issued + 1}]
    /\ UNCHANGED <<mongo, redis, credits, previewCount>>

\* after cachePreview: handlePreviewCredits is called (not awaited) and
\* runs to its first await: redis.get for a template that is not premium,
\* decrementCredits for a premium one; the request is answered 200
PreviewCache(r) ==
    /\ preq[r].pc = "cachePreview"
    /\ PreviewStep(r, [preq[r] EXCEPT !.pc = IF preq[r].premium THEN "debit" ELSE "getCount"])
    /\ UNCHANGED <<mongo, redis, credits, previewCount, previews>>

\* `previewCount && Number.parseInt(previewCount) < FREE_GENERATIONS_PER_HOUR`:
\* redis.get answers null for a key that is not set, a string otherwise
freeLeft(count) == count # Unset /\ count < FREE_GENERATIONS_PER_HOUR

\* `const previewCount = await this.redis.get(previewKey)`
PreviewGetCount(r) ==
    /\ preq[r].pc = "getCount"
    /\ PreviewStep(r, [preq[r] EXCEPT !.pc = IF freeLeft(previewCount[preq[r].creator])
                                             THEN "incr" ELSE "debit"])
    /\ UNCHANGED <<mongo, redis, credits, previewCount, previews>>

\* `multi.incr(previewKey); multi.expire(previewKey, 3600); await multi.exec()`
\* (INCR of a key that expired meanwhile starts from 0); return
PreviewIncr(r) ==
    /\ preq[r].pc = "incr"
    /\ previewCount' = [previewCount EXCEPT ![preq[r].creator] =
                           IF @ = Unset THEN 1 ELSE @ + 1]
    /\ PreviewStep(r, IdlePreview)
    /\ UNCHANGED <<mongo, redis, credits, previews>>

\* `await decrementCredits(creator, ..., totalUsage?.promptTokens || 0, ...)`
PreviewDebit(r) ==
    /\ preq[r].pc = "debit"
    /\ decrementCredits(preq[r].creator, preq[r].usage)
    /\ PreviewStep(r, IdlePreview)
    /\ UNCHANGED <<mongo, redis, previewCount, previews>>

\* POST /post/create with an agentId that leaves the preview in the cache
CreateFromPreview_KeepsPreview(r, agentId, p, creator) ==
    /\ r = FreePreq
    /\ IF agentId \in previews.cached
       THEN /\ previews' = [previews EXCEPT !.commits[agentId] = @ + 1]
            /\ preq' = [preq EXCEPT ![r] = [IdlePreview EXCEPT !.pc = "cachePost",
                            !.creator = creator, !.agentId = agentId, !.post = p]]
       ELSE UNCHANGED <<previews, preq>>
    /\ UNCHANGED <<pipeline, hnd, gen, previewCount, calc, img, npc>>

\* POST /post/create with an agentId: `this.cache.get(agentId)`; no preview:
\* 400; else the media is formatted from the preview, deletePreview(agentId)
\* removes it, and the handler awaits cachePost(media)
CreateFromPreview(r, agentId, p, creator) ==
    /\ r = FreePreq
    /\ IF agentId \in previews.cached
       THEN /\ previews' = [previews EXCEPT !.cached = @ \ {agentId},
                                            !.commits[agentId] = @ + 1]
            /\ preq' = [preq EXCEPT ![r] = [IdlePreview EXCEPT !.pc = "cachePost",
                            !.creator = creator, !.agentId = agentId, !.post = p]]
       ELSE UNCHANGED <<previews, preq>>
    /\ UNCHANGED <<pipeline, hnd, gen, previewCount, calc, img, npc>>

\* `await this.cachePost(media)`, then insertOne({...media, versions: [],
\* status: ACTIVE}) and 200
CreateCachePost(r) ==
    /\ preq[r].pc = "cachePost"
    /\ cachePost(preq[r].post, formatSmartMedia(preq[r].creator, now))
    /\ mongo' = [mongo EXCEPT ![preq[r].post] =
                    IF @.exists THEN @
                    ELSE [formatSmartMedia(preq[r].creator, now) EXCEPT !.status = ACTIVE]]
    /\ PreviewStep(r, IdlePreview)
    /\ UNCHANGED <<credits, previewCount, previews>>

NextPreview ==
    \/ \E a \in Creators : TopUp(a)
    \/ \E a \in Creators : SeedCounter(a)
    \/ \E a \in Creators : ExpireCounter(a)
    \/ \E r \in Reqs, a \in Creators, premium \in BOOLEAN : PreviewRequest(r, a, premium)
    \/ \E r \in Reqs : PreviewCanUpdate(r)
    \/ \E r \in Reqs : PreviewHandler(r)
    \/ \E r \in Reqs : PreviewCache(r)
    \/ \E r \in Reqs : PreviewGetCount(r)
    \/ \E r \in Reqs : PreviewIncr(r)
    \/ \E r \in Reqs : PreviewDebit(r)
    \/ \E r \in Reqs, a \in AgentIds, p \in PostIds, c \in Creators : CreateFromPreview(r, a, p, c)
    \/ \E r \in Reqs : CreateCachePost(r)

SpecPreview == InitPreview /\ [][NextPreview]_vars

\* ---------------------------------------------------------------------------
\* Pure computations: trimTokens, the vote weight of a comment, the ranking
\* ---------------------------------------------------------------------------

MaxCtxLen == 5       \* characters of a context
MaxTokens == 3       \* maxTokens is 0..MaxTokens
MaxUpvoters == 2     \* entries fetchAllUpvotersFor answers for one comment
MaxBalance == 2      \* token balance of an account is 0..MaxBalance
MaxWeight == 2       \* votes of a weighted comment are 0..MaxWeight
MaxRanked == 3       \* weighted comments handed to orderBy

\* the characters of a context: "a" is one byte, "W" a character of two bytes
\* (w1 w2), "?" the replacement character U+FFFD
Chars == {"a", "W"}

\* the UTF-8 bytes of a character; U+FFFD is in the vocabulary as one token
\* and is written here as the one unit "r"
utf8(ch) ==
    CASE ch = "a" -> <<"a">>
      [] ch = "W" -> <<"w1", "w2">>
      [] OTHER    -> <<"r">>

RECURSIVE Bytes(_)
Bytes(text) == IF text = <<>> THEN <<>> ELSE utf8(Head(text)) \o Bytes(Tail(text))

\* encoding.encode on the bytes: a byte-pair encoding whose one merge joins
\* two "a"; every other byte is a token of its own, so the two bytes of "W"
\* are two tokens
RECURSIVE Encode(_)
Encode(bytes) ==
    IF bytes = <<>> THEN <<>>
    ELSE IF Len(bytes) >= 2 /\ bytes[1] = "a" /\ bytes[2] = "a"
         THEN <<(<<"a", "a">>)>> \o Encode(SubSeq(bytes, 3, Len(bytes)))
         ELSE <<(<<Head(bytes)>>)>> \o Encode(Tail(bytes))

RECURSIVE Flatten(_)
Flatten(tokens) == IF tokens = <<>> THEN <<>> ELSE Head(tokens) \o Flatten(Tail(tokens))

\* the UTF-8 decoding of encoding.decode: a byte that is no part of a whole
\* character becomes U+FFFD
RECURSIVE DecodeBytes(_)
DecodeBytes(bytes) ==
    IF bytes = <<>> THEN <<>>
    ELSE IF bytes[1] = "a" THEN <<"a">> \o DecodeBytes(Tail(bytes))
    ELSE IF bytes[1] = "w1" /\ Len(bytes) >= 2 /\ bytes[2] = "w2"
         THEN <<"W">> \o DecodeBytes(SubSeq(bytes, 3, Len(bytes)))
    ELSE <<"?">> \o DecodeBytes(Tail(bytes))

Decode(tokens) == DecodeBytes(Flatten(tokens))

\* Array.prototype.slice(-n) and String.prototype.slice(-n) for n > 0
sliceLast(seq, n) ==
    IF n >= Len(seq) THEN seq ELSE SubSeq(seq, Len(seq) - n + 1, Len(seq))

\* a truncation that keeps the first tokens
truncateTiktoken_KeepsHead(context, maxTokens, fails) ==
    IF fails THEN sliceLast(context, maxTokens * 4)
    ELSE LET tokens == Encode(Bytes(context)) IN
         IF Len(tokens) <= maxTokens THEN context
         ELSE Decode(SubSeq(tokens, 1, maxTokens))

\* truncateTiktoken; fails: encodingForModel or encode throws
truncateTiktoken(context, maxTokens, fails) ==
    IF fails THEN sliceLast(context, maxTokens * 4)
    ELSE LET tokens == Encode(Bytes(context)) IN
         IF Len(tokens) <= maxTokens THEN context
         ELSE Decode(sliceLast(tokens, maxTokens))

\* trimTokens: `if (!context) return ""`, `if (maxTokens <= 0) throw`, then
\* truncateTiktoken on every path
trimTokens(context, maxTokens, fails) ==
    IF context = <<>> THEN [out |-> <<>>, threw |-> FALSE]
    ELSE IF maxTokens <= 0 THEN [out |-> <<>>, threw |-> TRUE]
    ELSE [out |-> truncateTiktoken(context, maxTokens, fails), threw |-> FALSE]

\* the accounts of the votes: comment authors, up-voters, collectors
Profiles == {"alice", "bob", "carol"}

\* lodash uniq: the first occurrence of every value, in order
RECURSIVE uniq(_)
uniq(seq) ==
    IF seq = <<>> THEN <<>>
    ELSE LET init == uniq(SubSeq(seq, 1, Len(seq) - 1))
             last == seq[Len(seq)]
         IN IF \E i \in 1..Len(init) : init[i] = last THEN init ELSE Append(init, last)

\* Array.prototype.filter: the elements in `keep`, in order
RECURSIVE filter(_, _)
filter(seq, keep) ==
    IF seq = <<>> THEN <<>>
    ELSE (IF Head(seq) \in keep THEN <<Head(seq)>> ELSE <<>>) \o filter(Tail(seq), keep)

\* the weight of one balance: monotonic and saturating
getVoteWeightFromBalance(b) == IF b >= 1 THEN 1 ELSE 0

RECURSIVE balanceWeights(_, _)
balanceWeights(voters, balance) ==
    IF voters = <<>> THEN 0
    ELSE getVoteWeightFromBalance(balance[Head(voters)])
            + balanceWeights(Tail(voters), balance)

\* voters that are not restricted to the collectors
voters_Unfiltered(upvoters, author, collectors) == uniq(Append(upvoters, author))

\* `voters.push(comment.author.address); voters = uniq(voters);
\*  voters = voters.filter((account) => allCollectors.includes(account))`
voters(upvoters, author, collectors) ==
    filter(uniq(Append(upvoters, author)), collectors)

\* the votes of one comment: voters.length without a token, else the sum of
\* getVoteWeightFromBalance over the voters' balances
votes(upvoters, author, collectors, hasToken, balance) ==
    LET v == voters(upvoters, author, collectors) IN
    IF ~hasToken THEN Len(v) ELSE balanceWeights(v, balance)

\* lodash compareMultiple for ('votes', 'desc') that leaves out the index
before_NoIndex(weights, i, j) == weights[i] >= weights[j] /\ i # j

\* lodash compareMultiple for ('votes', 'desc'): the greater votes first, and
\* `object.index - other.index` between equal votes
before(weights, i, j) ==
    \/ weights[i] > weights[j]
    \/ weights[i] = weights[j] /\ i < j

\* lodash orderBy(commentsWeighted, 'votes', 'desc'), as the indices of the
\* comments: each index is placed after the indices that come before it
RECURSIVE insert(_, _, _)
insert(sorted, weights, i) ==
    IF sorted = <<>> THEN <<i>>
    ELSE IF before(weights, i, Head(sorted)) THEN <<i>> \o sorted
    ELSE <<Head(sorted)>> \o insert(Tail(sorted), weights, i)

RECURSIVE orderByFrom(_, _)
orderByFrom(weights, n) ==
    IF n = 0 THEN <<>> ELSE insert(orderByFrom(weights, n - 1), weights, n)

orderBy(weights) == orderByFrom(weights, Len(weights))

SeqsUpTo(S, n) == UNION {[1..k -> S] : k \in 0..n}

TrimInputs ==
    {[IdleCalc EXCEPT !.fn = "trim", !.context = c, !.maxTokens = k, !.fails = f] :
        c \in SeqsUpTo(Chars, MaxCtxLen), k \in 0..MaxTokens, f \in BOOLEAN}

VoteInputs ==
    {[IdleCalc EXCEPT !.fn = "votes", !.author = a, !.upvoters = u,
                      !.collectors = c, !.hasToken = t, !.balance = b] :
        a \in Profiles, u \in SeqsUpTo(Profiles, MaxUpvoters), c \in SUBSET Profiles,
        t \in BOOLEAN, b \in {[x \in Profiles |-> IF x \in rich THEN MaxBalance ELSE 0] :
                                 rich \in SUBSET Profiles}}

RankInputs ==
    {[IdleCalc EXCEPT !.fn = "rank", !.weights = w] :
        w \in SeqsUpTo(0..MaxWeight, MaxRanked) \ {<<>>}}

InitCalc ==
    /\ mongo = [p \in PostIds |-> NoMedia]
    /\ redis = [p \in PostIds |-> NoMedia]
    /\ credits = [a \in Creators |-> 0]
    /\ processing = {}
    /\ job = [j \in Jobs |-> IdleJob]
    /\ req = [r \in Reqs |-> IdleReq]
    /\ now = 0
    /\ hnd = IdleHandler
    /\ gen = IdleGen
    /\ previewCount = [a \in Creators |-> Unset]
    /\ preq = [r \in Reqs |-> IdlePreview]
    /\ previews = NoPreviews
    /\ calc \in TrimInputs \cup VoteInputs \cup RankInputs
    /\ img = IdleImage
    /\ npc = IdleMap

CalcStep(next) ==
    /\ ~calc.done
    /\ calc' = [next EXCEPT !.done = TRUE]
    /\ UNCHANGED <<pipeline, hnd, gen, previewCount, preq, previews, img, npc>>

\* one call of trimTokens(context, maxTokens, runtime)
ApplyTrim ==
    /\ calc.fn = "trim"
    /\ LET r == trimTokens(calc.context, calc.maxTokens, calc.fails) IN
       CalcStep([calc EXCEPT !.out = r.out, !.threw = r.threw])

\* the votes of one comment in commentsWeighted
ApplyVotes ==
    /\ calc.fn = "votes"
    /\ CalcStep([calc EXCEPT !.votes = votes(calc.upvoters, calc.author, calc.collectors,
                                            calc.hasToken, calc.balance)])

\* `orderBy(commentsWeighted, 'votes', 'desc')[0]`
ApplyRank ==
    /\ calc.fn = "rank"
    /\ CalcStep([calc EXCEPT !.ranked = orderBy(calc.weights),
                              !.top = orderBy(calc.weights)[1]])

NextCalc == ApplyTrim \/ ApplyVotes \/ ApplyRank

SpecCalc == InitCalc /\ [][NextCalc]_vars

\* ---------------------------------------------------------------------------
\* generateImage
\* ---------------------------------------------------------------------------

MaxImages == 3       \* entries of the `images` array of a response

\* what `await response.json()` can give: it throws (the body is no JSON), or
\* the body is null, an object without `images`, one whose `images` is no
\* array, or one with an array of base64 strings ("": an empty string)
Bodies == {"notJson", "null", "noImages", "imagesNotArray", "images"}
ImageLists == UNION {[1..k -> {"", "iVBOR"}] : k \in 0..MaxImages}

returnFailure(g, error) ==
    [g EXCEPT !.pc = "returned", !.result = [NoImageResult EXCEPT !.error = error]]

\* an outer try without its catch: the error leaves generateImage
caught_Rethrown(g, error) == [g EXCEPT !.pc = "raised", !.result = NoImageResult]

\* the outer `catch (error) { ...; return { success: false, error: error } }`
caught(g, error) == returnFailure(g, error)

InitImage ==
    /\ mongo = [p \in PostIds |-> NoMedia]
    /\ redis = [p \in PostIds |-> NoMedia]
    /\ credits = [a \in Creators |-> 0]
    /\ processing = {}
    /\ job = [j \in Jobs |-> IdleJob]
    /\ req = [r \in Reqs |-> IdleReq]
    /\ now = 0
    /\ hnd = IdleHandler
    /\ gen = IdleGen
    /\ previewCount = [a \in Creators |-> Unset]
    /\ preq = [r \in Reqs |-> IdlePreview]
    /\ previews = NoPreviews
    /\ calc = IdleCalc
    /\ npc = IdleMap
    /\ \E hasSettings, apiKey, hasFetch, modelId, inpaint \in BOOLEAN :
          img = [IdleImage EXCEPT !.pc = "start", !.hasSettings = hasSettings,
                                  !.apiKey = apiKey, !.hasFetch = hasFetch,
                                  !.modelId = modelId, !.inpaint = inpaint]

ImageStep(next) ==
    img' = next /\ UNCHANGED <<pipeline, hnd, gen, previewCount, preq, previews, calc, npc>>

\* the entry up to `await fetch(...)`: no model settings, no VENICE_API_KEY,
\* no global fetch: each returns a failure; else the request is sent
IStart ==
    /\ img.pc = "start"
    /\ ImageStep(IF ~img.hasSettings THEN returnFailure(img, "No model settings available")
                 ELSE IF ~img.apiKey THEN returnFailure(img, "VENICE_API_KEY is missing")
                 ELSE IF ~img.hasFetch THEN returnFailure(img, "Global fetch is not available")
                 ELSE [img EXCEPT !.pc = "fetch", !.requests = @ + 1])

\* `await fetch(...)` rejects (network error) or answers a response, whose
\* `await response.json()` comes next
IFetch ==
    /\ img.pc = "fetch"
    /\ \/ ImageStep(caught([img EXCEPT !.body = "networkError"], "fetch failed"))
       \/ ImageStep([img EXCEPT !.pc = "json"])

\* `result = await response.json()` and the code after it
IJson ==
    /\ img.pc = "json"
    /\ \E body \in Bodies, images \in ImageLists :
          /\ body # "images" => images = <<>>
          /\ LET g == [img EXCEPT !.body = body, !.images = images] IN
             ImageStep(
                IF body = "notJson"
                THEN returnFailure(g, "Failed to parse Venice response as JSON")
                ELSE IF body = "null"
                THEN caught(g, "TypeError")
                ELSE IF body \in {"noImages", "imagesNotArray"}
                THEN returnFailure(g, "Invalid response format from Venice AI")
                ELSE IF \E i \in 1..Len(images) : images[i] = ""
                THEN caught(g, "Empty base64 string in Venice AI response")
                ELSE [g EXCEPT !.pc = "returned",
                               !.result = [success |-> TRUE, error |-> "",
                                           data |-> [i \in 1..Len(images) |->
                                                       <<"data:image/png;base64,", images[i]>>]]])

NextImage == IStart \/ IFetch \/ IJson

SpecImage == InitImage /\ [][NextImage]_vars

\* ---------------------------------------------------------------------------
\* The game map: TownMap.onInit and its NPC phrase loop
\* ---------------------------------------------------------------------------

\* the two versions of the map: maps/map.ts starts the initial batch without
\* awaiting it; the later version awaits it inside fetchAndCreateNPCs
MapVersions == {"map.ts", "part_004"}

InitMap ==
    /\ mongo = [p \in PostIds |-> NoMedia]
    /\ redis = [p \in PostIds |-> NoMedia]
    /\ credits = [a \in Creators |-> 0]
    /\ processing = {}
    /\ job = [j \in Jobs |-> IdleJob]
    /\ req = [r \in Reqs |-> IdleReq]
    /\ now = 0
    /\ hnd = IdleHandler
    /\ gen = IdleGen
    /\ previewCount = [a \in Creators |-> Unset]
    /\ preq = [r \in Reqs |-> IdlePreview]
    /\ previews = NoPreviews
    /\ calc = IdleCalc
    /\ img = IdleImage
    /\ \E v \in MapVersions : npc = [IdleMap EXCEPT !.pc = "init", !.version = v]

MapStep(next) ==
    npc' = next /\ UNCHANGED <<pipeline, hnd, gen, previewCount, preq, previews, calc, img>>

\* updateAllPhrases(): `Promise.all(npcEvents.map(async ...))` starts one
\* getOpenRouterMessage call for every NPC
updateAllPhrases(m, npcs) ==
    [m EXCEPT !.started = @ + 1, !.inflight[m.started + 1] = npcs]

\* a batch whose every NPC update has finished (Promise.all has resolved)
settled(m, b) == m.inflight[b] = {}

\* onInit up to the loop's first await. maps/map.ts: `updateAllPhrases();`
\* (not awaited) and then `batchLoop()`, whose first statement is
\* `await updateAllPhrases()`. The later version: `await
\* fetchAndCreateNPCs()`, which awaits its updateAllPhrases, before batchLoop()
MInit ==
    /\ npc.pc = "init"
    /\ \E npcs \in SUBSET Npcs :
          MapStep(IF npc.version = "map.ts"
                  THEN LET first == updateAllPhrases(npc, npcs)
                           second == updateAllPhrases(first, npcs)
                       IN [second EXCEPT !.pc = "batch", !.awaited = second.started]
                  ELSE LET first == updateAllPhrases(npc, npcs)
                       IN [first EXCEPT !.pc = "initial", !.awaited = first.started])

\* one NPC's update finishes: getOpenRouterMessage answered (it catches its
\* own errors) and the text is set
MNpcDone ==
    \E b \in BatchIds, n \in Npcs :
        /\ n \in npc.inflight[b]
        /\ MapStep([npc EXCEPT !.inflight[b] = @ \ {n}])

\* the awaited batch has settled: the initial one is followed by batchLoop()
\* and its first batch, a batch of the loop by the 35 s timer
MBatchDone ==
    /\ npc.pc \in {"initial", "batch"}
    /\ settled(npc, npc.awaited)
    /\ IF npc.pc = "batch" THEN MapStep([npc EXCEPT !.pc = "sleep", !.awaited = 0])
       ELSE /\ npc.started < MaxBatches
            /\ \E npcs \in SUBSET Npcs :
                  LET next == updateAllPhrases(npc, npcs)
                  IN MapStep([next EXCEPT !.pc = "batch", !.awaited = next.started])

\* the timer fires: the next iteration's `await updateAllPhrases()`
MTimer ==
    /\ npc.pc = "sleep"
    /\ npc.started < MaxBatches
    /\ \E npcs \in SUBSET Npcs :
          LET next == updateAllPhrases(npc, npcs)
          IN MapStep([next EXCEPT !.pc = "batch", !.awaited = next.started])

NextMap == MInit \/ MNpcDone \/ MBatchDone \/ MTimer

SpecMap == InitMap /\ [][NextMap]_vars


\* ===================================================================== claims
\* a handlePostUpdate invocation is running in slot j
Running(j) == job[j].pc \notin {"idle", "done"}

\* slot j takes a step
Steps(j) == job'[j] # job[j]

\* C1: for every postId at most one handlePostUpdate job is running at any
\* instant, also when several update requests passed the isProcessing check
\* before any of them called tasks.add.
C1_SingleFlight ==
    \A p \in PostIds : Cardinality({j \in Jobs : Running(j) /\ job[j].post = p}) <= 1

\* C1 witness: a job runs for a post while another update request for the
\* same post, which passed the isProcessing check before that job was added,
\* is about to call tasks.add with enough credits.
C1_Witness ==
    \E r \in Reqs, j \in Jobs :
        /\ req[r].pc = "canUpdate"
        /\ canUpdate(req[r].creator)
        /\ Running(j)
        /\ job[j].post = req[r].post

\* C2 (as claimed): the persisted versionCount counts the versions appended:
\* after N accepted cycles both have grown by N, whatever the status was.
C2_VersionCountCountsVersions ==
    \A p \in PostIds : mongo[p].exists => mongo[p].versionCount = Len(mongo[p].versions)

\* C3 (as claimed): the persisted status never moves directly from FAILED to
\* DISABLED or from DISABLED to FAILED.
C3_NoFailedDisabledSwap ==
    [][\A p \in PostIds :
          /\ ~(mongo[p].status = FAILED /\ mongo'[p].status = DISABLED)
          /\ ~(mongo[p].status = DISABLED /\ mongo'[p].status = FAILED)]_vars

\* C4 (as claimed): a step that moves the persisted status from FAILED or
\* DISABLED to ACTIVE also appends a version.
C4_ReactivationAppendsVersion ==
    [][\A p \in PostIds :
          mongo[p].status \in {FAILED, DISABLED} /\ mongo'[p].status = ACTIVE
              => Len(mongo'[p].versions) = Len(mongo[p].versions) + 1]_vars

\* C4 (amended): the persisted status moves from FAILED or DISABLED to ACTIVE
\* only in the database update of an update cycle that read the status as
\* FAILED or DISABLED and whose handler returned a result that is not taken
\* for "no updates" (no refresh request and promptTokens, imagesCreated and
\* videosCreated all equal to 0); the result may carry no new version.
C4_ReactivationOnlyByHandlerResult ==
    [][\A p \in PostIds :
          mongo[p].status \in {FAILED, DISABLED} /\ mongo'[p].status = ACTIVE
              => \E j \in Jobs :
                    /\ job[j].post = p
                    /\ job[j].pc = "updateDb"
                    /\ job'[j].pc = "debit"
                    /\ job[j].data.status \in {FAILED, DISABLED}
                    /\ ~job[j].resp.isNull
                    /\ \/ job[j].resp.refreshMetadata
                       \/ job[j].resp.promptTokens # 0
                       \/ job[j].resp.imagesCreated # 0
                       \/ job[j].resp.videosCreated # 0]_vars

\* C4 witness: a cycle has just set a FAILED or DISABLED post ACTIVE with a
\* handler result that carries no new version.
C4_Witness ==
    \E j \in Jobs :
        /\ job[j].pc = "debit"
        /\ job[j].data.status \in {FAILED, DISABLED}
        /\ ~job[j].resp.persistVersionUri
        /\ mongo[job[j].post].status = ACTIVE

\* C5 (as claimed): a step that appends a version to a post whose persisted
\* status is FAILED leaves it ACTIVE.  (The claim says the same of DISABLED;
\* FAILED is the status no concurrent request can have set during the cycle.)
C5_VersionPushReactivates ==
    [][\A p \in PostIds :
          /\ Len(mongo'[p].versions) = Len(mongo[p].versions) + 1
          /\ mongo[p].status = FAILED
          => mongo'[p].status = ACTIVE]_vars

\* C6 (as claimed): an update request without forceUpdate for a post whose
\* persisted status is DISABLED enqueues no job.  Stated for the requests
\* whose own getPost read the status DISABLED from the persistent store.
C6_DisabledNotScheduled ==
    [][\A r \in Reqs :
          /\ req[r].pc = "canUpdate"
          /\ req'[r] # req[r]
          /\ ~req[r].force
          /\ req[r].status = DISABLED
          /\ mongo[req[r].post].status = DISABLED
          => job' = job]_vars

\* C7: an update attempt whose handler returns no result freezes the post
\* (persisted status FAILED, cache entry removed) exactly when
\* now - updatedAt > DEFAULT_FREEZE_TIME for the updatedAt the attempt read;
\* at or below the threshold the attempt ends and no step of it has changed
\* the persisted record or the cache entry.
C7_FreezeExactlyPastThreshold ==
    [][\A j \in Jobs : Steps(j) =>
          /\ job[j].pc \in {"getPost", "canUpdate", "handler"}
                => UNCHANGED <<mongo, redis>>
          /\ job[j].pc = "fetchPost" /\ job'[j].pc = "canUpdate"
                => UNCHANGED <<mongo, redis>>
          /\ job[j].pc = "handler" /\ job'[j].pc = "freezeDb"
                => now - job[j].data.updatedAt > DEFAULT_FREEZE_TIME
          /\ job[j].pc = "handler" /\ job'[j].pc = "done"
                => now - job[j].data.updatedAt <= DEFAULT_FREEZE_TIME
          /\ job[j].pc = "handler" /\ job'[j].pc \notin {"freezeDb", "done"}
                => ~job'[j].resp.isNull
          /\ job[j].pc = "freezeDb"
                => /\ job'[j].pc = "freezeCache"
                   /\ mongo' = [mongo EXCEPT ![job[j].post].status = FAILED]
                   /\ redis' = redis
          /\ job[j].pc = "freezeCache"
                => /\ ~redis'[job[j].post].exists
                   /\ mongo' = mongo]_vars

\* C7 witness: a handler returned no result past the threshold and the job
\* has set the post FAILED.
C7_Witness ==
    \E j \in Jobs :
        /\ job[j].pc = "freezeCache"
        /\ job[j].resp.isNull
        /\ now - job[j].data.updatedAt > DEFAULT_FREEZE_TIME
        /\ mongo[job[j].post].status = FAILED

\* C8 (as claimed): a handler result with zero token/media usage and no
\* metadata-refresh request ends the cycle at the freeze-threshold rule: the
\* job never reaches the database update or the credit debit with it.
C8_ZeroUsageIsNoOp ==
    \A j \in Jobs :
        job[j].pc \in {"updateDb", "debit", "refresh", "refreshFailDb", "cache"}
            => ~(/\ ~job[j].resp.isNull
                 /\ ~job[j].resp.refreshMetadata
                 /\ job[j].resp.promptTokens = 0
                 /\ job[j].resp.imagesCreated = 0
                 /\ job[j].resp.videosCreated \in {0, -1})

\* C9: when the metadata refresh reports FAILED, the cycle ends with the
\* persisted status FAILED whatever time has elapsed since updatedAt, and no
\* step of the cycle from the handler's return on has written the cache.
C9_RefreshFailureFreezesAtOnce ==
    [][\A j \in Jobs : Steps(j) =>
          /\ job[j].pc = "refreshFailDb"
                => /\ job'[j] = DoneJob(job[j].post, "refreshFailed")
                   /\ mongo'[job[j].post].status = FAILED
                   /\ redis' = redis
          /\ job[j].pc \in {"updateDb", "debit", "refresh"} => redis' = redis]_vars

\* C9 witness: a cycle has ended on a refresh failure with the post FAILED
\* although the cached updatedAt is within the freeze threshold of now.
C9_Witness ==
    \E j \in Jobs :
        /\ job[j].pc = "done"
        /\ job[j].outcome = "refreshFailed"
        /\ mongo[job[j].post].status = FAILED
        /\ redis[job[j].post].exists
        /\ now - redis[job[j].post].updatedAt <= DEFAULT_FREEZE_TIME

\* C10: when the creator's credits do not cover the update, the endpoint adds
\* no job and the queued job returns without invoking the handler; neither
\* debits credits nor changes the persisted record or the cache entry.
C10_NoCreditsNoEffect ==
    [][/\ \A r \in Reqs :
             /\ req[r].pc = "canUpdate"
             /\ req'[r] # req[r]
             /\ credits[req[r].creator] < minCreditsForUpdate
             => UNCHANGED <<mongo, redis, credits, processing, job>>
       /\ \A j \in Jobs :
             /\ job[j].pc = "canUpdate"
             /\ Steps(j)
             /\ credits[job[j].data.creator] < minCreditsForUpdate
             => /\ UNCHANGED <<mongo, redis, credits>>
                /\ job'[j] = DoneJob(job[j].post, "noCredits")]_vars

\* C10 witness: a queued job has returned for lack of credits.
C10_Witness ==
    \E j \in Jobs : job[j].pc = "done" /\ job[j].outcome = "noCredits"

\* C11: forceUpdate bypasses neither check of the update endpoint: a forced
\* update by an account other than the post's recorded creator is answered
\* (401) without going on to canUpdate and without a job, and a forced update
\* by the creator whose credits do not cover it is answered (403) without a job.
C11_ForceKeepsChecks ==
    [][\A r \in Reqs : req'[r] # req[r] =>
          /\ /\ req[r].pc = "getPost"
             /\ req[r].force
             /\ getPost(req[r].post).exists
             /\ getPost(req[r].post).creator # req[r].user
             => req'[r] = IdleReq /\ UNCHANGED <<job, processing>>
          /\ /\ req[r].pc = "canUpdate"
             /\ req[r].force
             /\ credits[req[r].creator] < minCreditsForUpdate
             => req'[r] = IdleReq /\ UNCHANGED <<job, processing>>]_vars

\* C11 witness: a forced update of an existing post by another account awaits
\* getPost while a forced update by the creator, who is out of credits, awaits
\* canUpdate.
C11_Witness ==
    \E r, q \in Reqs :
        /\ req[r].pc = "getPost"
        /\ req[r].force
        /\ getPost(req[r].post).exists
        /\ getPost(req[r].post).creator # req[r].user
        /\ req[q].pc = "canUpdate"
        /\ req[q].force
        /\ credits[req[q].creator] < minCreditsForUpdate

\* C13: only the account recorded as the post's creator gets past the disable
\* endpoint's check (for any other account the request ends with the persisted
\* record and the cache as they were); for the creator the endpoint sets the
\* persisted status DISABLED and then removes the post from the cache.
C13_DisableOnlyByCreator ==
    [][\A r \in Reqs : req'[r] # req[r] =>
          /\ req[r].pc = "idle" /\ req'[r].pc = "disableDb"
                => /\ getPost(req'[r].post).exists
                   /\ getPost(req'[r].post).creator = req'[r].user
                   /\ UNCHANGED <<mongo, redis>>
          /\ req[r].pc = "disableDb"
                => /\ req'[r].pc = "disableCache"
                   /\ mongo[req[r].post].exists => mongo'[req[r].post].status = DISABLED
                   /\ redis' = redis
          /\ req[r].pc = "disableCache"
                => /\ req'[r] = IdleReq
                   /\ ~redis'[req[r].post].exists
                   /\ mongo' = mongo]_vars

\* C13 witness: the creator's disable request has set the status DISABLED and
\* is about to remove the post, still cached, from the cache.
C13_Witness ==
    \E r \in Reqs :
        /\ req[r].pc = "disableCache"
        /\ req[r].user = mongo[req[r].post].creator
        /\ mongo[req[r].post].status = DISABLED
        /\ redis[req[r].post].exists

\* C17: in an update cycle credits are debited only by the step that follows
\* the handler's result (and the database update, if any), once, by the cost of
\* the usage that result reported; a cycle whose handler returned no result or
\* that ended before the handler never reaches that step.
C17_DebitOnceAfterHandler ==
    [][\A j \in Jobs : Steps(j) =>
          /\ job[j].pc = "debit"
                => /\ ~job[j].resp.isNull
                   /\ credits' = [credits EXCEPT ![job[j].data.creator] =
                                     IF @ >= usageCost(job[j].resp)
                                     THEN @ - usageCost(job[j].resp) ELSE 0]
                   /\ job'[j].pc \in {"refresh", "cache", "done"}
          /\ job[j].pc # "debit" => credits' = credits
          /\ job'[j].pc = "debit" => job[j].pc \in {"handler", "updateDb"}
          /\ job'[j].pc = "updateDb" => job[j].pc = "handler"
          /\ job[j].pc = "handler" /\ job'[j].pc \in {"updateDb", "debit"}
                => ~job'[j].resp.isNull
          /\ job[j].pc \in {"refresh", "refreshFailDb", "cache"}
                => job'[j].pc \in {"refreshFailDb", "cache", "done"}]_vars

\* C17 witness: a cycle has debited the creator's last credit for a handler
\* result that reported usage, and goes on to the metadata refresh.
C17_Witness ==
    \E j \in Jobs :
        /\ job[j].pc = "refresh"
        /\ job[j].resp.promptTokens > 0
        /\ credits[job[j].data.creator] = 0

\* C12 (as claimed): with forceUpdate set the handler never returns its no-op
\* result: neither the staleness gate nor the comment threshold skips a forced
\* update.
C12_ForcedNeverSkips ==
    [][hnd.force /\ hnd' # hnd /\ hnd'.pc = "returned"
          => hnd'.result # SkipResponse]_vars

\* C12 (amended): with forceUpdate set the staleness gate never skips the
\* update (stale or not, the handler goes on to fetch the comments), while the
\* comment threshold still applies: a forced update returns the no-op result
\* only after the comments were fetched and were fewer than
\* minCommentUpdateThreshold (default 1), and then it always does.
C12_ForcedBypassesStalenessOnly ==
    [][hnd.force /\ hnd' # hnd =>
          /\ hnd.pc = "start" /\ hnd.hasData => hnd'.pc = "comments"
          /\ hnd'.pc = "returned" /\ hnd'.result = SkipResponse
                => /\ hnd.pc = "comments"
                   /\ hnd'.comments < threshold(hnd.minThreshold)
          /\ hnd.pc = "comments" /\ hnd'.comments # -1
                => (hnd'.pc = "votes") = (hnd'.comments >= threshold(hnd.minThreshold))]_vars

\* C12 witness: a forced update of a post that is not stale has passed both
\* gates; and the handler section's other case, a forced update skipped for
\* too few comments, is C12_ForcedNeverSkips's violation.
C12_Witness ==
    /\ hnd.force
    /\ ~hnd.stale
    /\ hnd.pc = "votes"
    /\ hnd.comments >= threshold(hnd.minThreshold)

\* C20: one bonsaiGarden handler invocation calls generateImage at most
\* MAX_ATTEMPTS = 2 times: a successful attempt leaves the loop for good, and
\* when the second attempt fails the handler returns no result.
C20_ImageAttemptsBounded ==
    /\ [](hnd.imageCalls <= 2)
    /\ [][hnd' # hnd =>
             /\ hnd.pc = "image" /\ hnd.imageCalls = 1
                   => \/ hnd'.pc = "persist"
                      \/ hnd'.pc = "returned" /\ hnd'.result = NullResponse
             /\ hnd.pc = "persist" => hnd'.pc = "returned"
             /\ hnd'.pc = "image" => hnd.pc = "prompt"
             /\ hnd'.pc = "prompt" => hnd.pc = "votes" \/ (hnd.pc = "image" /\ hnd.imageCalls = 0)]_vars

\* C20 witness: both image attempts failed and the handler returned no result.
C20_Witness ==
    /\ hnd.pc = "returned"
    /\ hnd.template = BONSAI_GARDEN
    /\ hnd.imageCalls = 2
    /\ hnd.attempts = 2
    /\ hnd.result = NullResponse

\* C18: a generateObjectDeprecated call whose first k attempts fail (provider
\* error or unparseable response) and whose (k+1)-th attempt parses returns
\* the parsed object having slept 1000 * 2^(i-1) ms before retry i, that is
\* 1000 * (2^k - 1) ms in all (1000 then 2000 for k = 2).
C18_BackoffDoubles ==
    gen.fn = "generateObjectDeprecated" =>
        /\ \A i \in 1..Len(gen.waits) : gen.waits[i] = 1000 * Pow2(i - 1)
        /\ gen.pc = "returned" /\ gen.result # "empty"
              => /\ gen.result = "parsed"
                 /\ gen.calls = gen.failures + 1
                 /\ Len(gen.waits) = gen.failures
                 /\ Sum(gen.waits) = 1000 * (Pow2(gen.failures) - 1)

\* C18 witness: the third attempt parsed after two failures, the waits having
\* been 1000 ms and 2000 ms.
C18_Witness ==
    /\ gen.fn = "generateObjectDeprecated"
    /\ gen.pc = "returned"
    /\ gen.result = "parsed"
    /\ gen.failures = 2
    /\ gen.waits = <<1000, 2000>>

\* C19 (as claimed): a call whose provider is misconfigured (unsupported
\* provider, missing credential) reaches generateText once and is never
\* retried, through the retrying wrappers as well: it never sleeps for a retry
\* and never calls generateText a second time.
C19_MisconfigurationNotRetried ==
    gen.config \in Misconfigurations => gen.pc # "sleep" /\ gen.calls <= 1

\* C14 (as claimed): a preview with a template that is not premium, by a
\* creator whose hourly counter is not set yet or is below
\* FREE_GENERATIONS_PER_HOUR, is counted and not debited: from no counter, N
\* previews pass without a debit and only the (N+1)-th is debited.
C14_FreePreviewsBeforeDebit ==
    [][\A r \in Reqs :
          /\ preq[r].pc = "getCount"
          /\ preq'[r] # preq[r]
          /\ \/ previewCount[preq[r].creator] = Unset
             \/ previewCount[preq[r].creator] < FREE_GENERATIONS_PER_HOUR
          => preq'[r].pc = "incr"]_vars

C16_DebitedPreviewWasAdmitted ==
    \A r \in Reqs : preq[r].pc = "debit" => preq[r].admitted

\* C21: an update request that arrives while the post is processing goes no
\* further than the isProcessing check: no request reaches getPost (and so
\* the authorization check, the credit check or tasks.add) for a postId that
\* is processing at its arrival, and the arrival changes nothing else.
C21_BusyRequestStopsAtCheck ==
    [][\A r \in Reqs :
          req[r].pc = "idle" /\ req'[r].pc = "getPost"
              => /\ ~isProcessing(req'[r].post)
                 /\ UNCHANGED <<mongo, redis, credits, processing, job>>]_vars

\* C21 witness: a post is processing while a request slot is free, so that an
\* update request for it is answered "processing".
C21_Witness ==
    \E p \in PostIds :
        /\ isProcessing(p)
        /\ FreeReq # 0
        /\ ENABLED UpdateProcessing(FreeReq, p)

\* the record getPost answers from a persistent store m and a cache r
visible(m, r, p) == IF r[p].exists THEN r[p] ELSE m[p]

\* C23 (as claimed): creating with a postId that already exists changes
\* neither the persisted record nor the cached one (creator, templateData,
\* updatedAt, versionCount): a step that is no step of an update job, of an
\* update request or of a disable request leaves an existing post as it was.
C23_RecreateChangesNothing ==
    [][\A p \in PostIds :
          mongo[p].exists /\ job' = job /\ req' = req
              => mongo'[p] = mongo[p] /\ redis'[p] = redis[p]]_vars

\* C25 (as claimed): the versionCount getPost answers for a post never
\* decreases in a step of an update job or of a request (update, disable).
C25_VersionCountNeverDecreases ==
    [][\A p \in PostIds :
          /\ visible(mongo, redis, p).exists
          /\ job' # job \/ req' # req
          => visible(mongo', redis', p).versionCount
                 >= visible(mongo, redis, p).versionCount]_vars

\* C26 (as claimed): the updatedAt getPost answers for a post never moves
\* backwards in a step of an update job or of a request, also when the post
\* has left the cache and is read from the persistent store.
C26_UpdatedAtNeverMovesBack ==
    [][\A p \in PostIds :
          /\ visible(mongo, redis, p).exists
          /\ job' # job \/ req' # req
          => visible(mongo', redis', p).updatedAt
                 >= visible(mongo, redis, p).updatedAt]_vars

\* C24: the create that commits a preview removes it from the preview cache
\* in the same step that reads it, so an agentId is committed at most once: a
\* create whose agentId has no cached preview (never cached, or committed
\* before) goes no further and creates or overwrites no post.
C24_PreviewCommittedOnce ==
    /\ [](\A a \in AgentIds : previews.commits[a] <= 1)
    /\ [][/\ \A r \in Reqs :
                preq[r].pc = "idle" /\ preq'[r].pc = "cachePost"
                    => /\ preq'[r].agentId \in previews.cached
                       /\ preq'[r].agentId \notin previews'.cached
          /\ mongo' # mongo \/ redis' # redis
                => \E r \in Reqs : preq[r].pc = "cachePost" /\ preq'[r] = IdlePreview]_vars

\* C24 witness: a preview has been committed into a post and is no longer in
\* the preview cache, while a request slot is free for a second create with
\* its agentId.
C24_Witness ==
    \E a \in AgentIds, p \in PostIds :
        /\ previews.commits[a] = 1
        /\ a \notin previews.cached
        /\ mongo[p].exists
        /\ FreePreq # 0

\* the sum of one field over the usages of the calls made
RECURSIVE SumOf(_, _)
SumOf(usages, field) ==
    IF usages = <<>> THEN 0 ELSE Head(usages)[field] + SumOf(Tail(usages), field)

\* C27: at every point of a handler invocation, and so in the totalUsage it
\* returns, promptTokens, completionTokens and totalTokens are each the sum of
\* that field over the usage of every generation call made so far (the
\* decision call and the page call of rpgGame, every prompt call of
\* bonsaiGarden).
C27_UsageIsSummed ==
    /\ hnd.promptTokens = SumOf(hnd.usages, "promptTokens")
    /\ hnd.completionTokens = SumOf(hnd.usages, "completionTokens")
    /\ hnd.totalTokens = SumOf(hnd.usages, "totalTokens")
    /\ hnd.pc = "returned" /\ hnd.result \notin {NullResponse, SkipResponse}
          => hnd.result.promptTokens = SumOf(hnd.usages, "promptTokens")

\* C27 witness: a handler returned a result after two generation calls with
\* different usages.
C27_Witness ==
    /\ hnd.pc = "returned"
    /\ hnd.result \notin {NullResponse, SkipResponse}
    /\ Len(hnd.usages) = 2
    /\ hnd.usages[1] # hnd.usages[2]
    /\ hnd.result.promptTokens = 3

\* the tokens of a text
Tokens(text) == Encode(Bytes(text))

Range(seq) == {seq[i] : i \in 1..Len(seq)}

\* C29: the votes of a comment count each qualifying voter once: the voters
\* are the author and the up-voters, as a set, that are collectors; without a
\* token the votes are the size of that set (0 when it is empty), with a token
\* the sum of the weights of their balances; an account that is no collector
\* adds nothing.
C29_VotesCountCollectorsOnce ==
    calc.fn = "votes" /\ calc.done =>
        LET qualifying == (Range(calc.upvoters) \cup {calc.author}) \cap calc.collectors
        IN /\ ~calc.hasToken => calc.votes = Cardinality(qualifying)
           /\ calc.hasToken =>
                 calc.votes = Cardinality({a \in qualifying :
                                  getVoteWeightFromBalance(calc.balance[a]) = 1})
           /\ qualifying = {} => calc.votes = 0

\* C29 witness: the author up-voted the own comment twice, a second up-voter
\* is no collector, and the comment has one vote.
C29_Witness ==
    /\ calc.fn = "votes" /\ calc.done /\ ~calc.hasToken
    /\ calc.author = "alice"
    /\ calc.upvoters = <<"alice", "bob">>
    /\ calc.collectors = {"alice", "carol"}
    /\ calc.votes = 1

\* C30: the ranking holds every comment once, by descending votes, equal
\* votes in the original order; its first element, the comment the
\* bonsaiGarden handler uses, has the most votes and is the earliest comment
\* with that many.
C30_RankIsStableDescending ==
    calc.fn = "rank" /\ calc.done =>
        LET w == calc.weights
            r == calc.ranked
        IN /\ Len(r) = Len(w)
           /\ Range(r) = 1..Len(w)
           /\ \A i, j \in 1..Len(r) :
                 i < j => \/ w[r[i]] > w[r[j]]
                          \/ w[r[i]] = w[r[j]] /\ r[i] < r[j]
           /\ calc.top = r[1]
           /\ \A i \in 1..Len(w) : w[i] <= w[calc.top]
           /\ \A i \in 1..Len(w) : w[i] = w[calc.top] => calc.top <= i

\* C30 witness: of three comments the second and the third have the most
\* votes, and the second is used.
C30_Witness ==
    /\ calc.fn = "rank" /\ calc.done
    /\ calc.weights = <<1, 2, 2>>
    /\ calc.ranked = <<2, 3, 1>>
    /\ calc.top = 2

Authors(latest) == {latest[i] : i \in 1..Len(latest)}

\* C31: a stale post that is not forced goes on to generation exactly when
\* its latest comments, counted once per distinct author, are at least the
\* threshold (minCommentUpdateThreshold, default 1), and is answered with the
\* zero-usage no-op when they are fewer.
C31_ThresholdOnDistinctAuthors ==
    [][hnd.pc = "comments" /\ hnd.stale /\ ~hnd.force /\ hnd'.comments # -1
          => /\ (hnd'.pc = "votes")
                   = (Cardinality(Authors(hnd'.latest)) >= threshold(hnd.minThreshold))
             /\ hnd'.pc # "votes" => hnd'.pc = "returned" /\ hnd'.result = SkipResponse]_vars

\* C32: the retrying wrappers never give up: a wrapper never throws, it
\* returns only on the empty-context check or with the first response that
\* parses, every failed attempt (provider error or unparseable response) is
\* followed by the sleep, and every sleep by the doubled delay and another
\* generateText call.
C32_WrappersRetryForever ==
    /\ [](gen.fn \in Wrappers =>
             /\ gen.pc # "thrown"
             /\ gen.pc = "returned" => gen.result \in {"parsed", "empty"}
             /\ gen.pc = "returned" /\ gen.result = "parsed" => gen.calls = gen.failures + 1
             /\ gen.pc = "returned" /\ gen.result = "empty" => gen.calls = 0
             /\ gen.pc \in {"call", "sleep"} => gen.failures = gen.calls)
    /\ [][gen.fn \in Wrappers =>
             /\ gen'.failures # gen.failures
                   => gen'.failures = gen.failures + 1 /\ gen'.pc = "sleep"
             /\ gen.pc = "sleep"
                   => gen'.pc = "call" /\ gen'.retryDelay = 2 * gen.retryDelay]_vars

\* C32 witness: generateShouldRespond is about to make its fourth attempt
\* after three failures and waits of 1000, 2000 and 4000 ms.
C32_Witness ==
    /\ gen.fn = "generateShouldRespond"
    /\ gen.pc = "call"
    /\ gen.failures = 3
    /\ gen.waits = <<1000, 2000, 4000>>
    /\ gen.retryDelay = 8000
    /\ ENABLED GCall

\* C33 (as claimed): the totalUsage a successful bonsaiGarden run returns, the
\* one handlePostUpdate debits, has imagesCreated equal to the number of
\* generateImage calls that returned success, not to the number of attempts.
C33_ImagesCreatedCountsSuccesses ==
    hnd.pc = "returned" /\ hnd.template = BONSAI_GARDEN
        /\ hnd.result \notin {NullResponse, SkipResponse}
            => hnd.result.imagesCreated = hnd.imagesSucceeded

\* C34: when fetchPostById reports the post deleted, the job's next two steps
\* set the persisted status to DISABLED and remove the post from the cache,
\* and the job ends there: it never reaches the credit check, the handler or
\* the debit, and the credits stay as they are.
C34_DeletedPostIsDisabled ==
    [][\A j \in Jobs :
          LET p == job[j].post IN
          /\ job'[j].pc = "deletedDb" /\ Steps(j) => job[j].pc = "fetchPost"
          /\ job[j].pc = "deletedDb" /\ Steps(j)
                => /\ job'[j].pc = "deletedCache"
                   /\ mongo[p].exists => mongo'[p].status = DISABLED
                   /\ credits' = credits
          /\ job[j].pc = "deletedCache" /\ Steps(j)
                => /\ job'[j] = DoneJob(p, "deleted")
                   /\ mongo[p].exists => mongo'[p].status = DISABLED
                   /\ ~redis'[p].exists
                   /\ credits' = credits]_vars

\* C34 witness: a job ended on a deleted post of a creator with credits: the
\* post is DISABLED, out of the cache, and the credits are still there.
C34_Witness ==
    \E j \in Jobs :
        /\ job[j] = DoneJob(job[j].post, "deleted")
        /\ mongo[job[j].post].exists
        /\ mongo[job[j].post].status = DISABLED
        /\ ~redis[job[j].post].exists
        /\ credits[mongo[job[j].post].creator] = MaxCredits

\* no request and no job is between two of its steps
Quiet == (\A j \in Jobs : job[j].pc \in {"idle", "done"}) /\ (\A r \in Reqs : req[r].pc = "idle")

\* a post whose persisted status is FAILED or DISABLED is not in the cache
FrozenNotCached ==
    \A p \in PostIds :
        mongo[p].exists /\ mongo[p].status \in {FAILED, DISABLED} => ~redis[p].exists

\* C35 (as claimed): a post whose persisted status is FAILED or DISABLED has
\* no entry in the cache: no step of an update job or of a request (freeze,
\* disable, deletion, refresh failure, the job's final cachePost) that leaves
\* nothing in flight takes the store from a state where this holds to one
\* where it does not.
C35_FrozenPostNotCached ==
    [][FrozenNotCached /\ (job' # job \/ req' # req) /\ Quiet' => FrozenNotCached']_vars

\* C36 (as claimed): a disable that completed while an update job for the
\* post was running (the job read the post before the disable, so the status
\* it holds is not DISABLED) is not undone by the job: no later step of the
\* job changes the persisted status from DISABLED.
C36_DisableSurvivesRunningJob ==
    [][\A j \in Jobs :
          LET p == job[j].post IN
          /\ Running(j) /\ job[j].pc # "getPost" /\ Steps(j)
          /\ job[j].data.status # DISABLED
          /\ mongo[p].exists /\ mongo[p].status = DISABLED
          /\ \A r \in Reqs : req[r].pc \notin {"disableDb", "disableCache"}
          => mongo'[p].status = DISABLED]_vars

\* C37: generateMessageResponse always terminates: it makes at most 3
\* generateText calls, returns the parsed content with the first response
\* that parses, and throws after the third failed attempt, whatever mix of
\* provider exceptions and unparseable responses the failures are.
C37_MessageResponseTerminates ==
    /\ [](gen.fn = "generateMessageResponse" =>
             /\ gen.calls <= 3
             /\ gen.pc = "returned" => gen.result = "parsed" /\ gen.calls = gen.failures + 1
             /\ gen.pc = "thrown" => gen.failures = 3 /\ gen.calls = 3
             /\ gen.pc \in {"call", "backoff"} => gen.failures = gen.calls /\ gen.calls < 3)
    /\ (gen.fn = "generateMessageResponse" ~> gen.pc \in {"returned", "thrown"})

\* C37 witness: the call threw after three attempts of which one failed with
\* a provider exception (one wait, of 2000 ms) and two did not parse.
C37_Witness ==
    /\ gen.fn = "generateMessageResponse"
    /\ gen.pc = "thrown"
    /\ gen.calls = 3
    /\ gen.waits = <<2000>>

\* C38: generateImage never raises and reports every failure as a value:
\* without an API key it returns {success: false, error} having sent no
\* request; a network error, a body that is no JSON, a body without an images
\* array and an empty image string each give {success: false, error}; success
\* is true only with the list of the images of the response, none empty.
C38_ImageFailuresAreValues ==
    /\ img.pc # "raised"
    /\ img.pc = "returned" =>
          /\ ~img.apiKey => ~img.result.success /\ img.requests = 0
          /\ img.body \in {"networkError", "notJson", "null", "noImages", "imagesNotArray"}
                => ~img.result.success
          /\ (\E i \in 1..Len(img.images) : img.images[i] = "") => ~img.result.success
          /\ ~img.result.success => img.result.error # "" /\ img.result.data = <<>>
          /\ img.result.success
                => /\ img.result.error = ""
                   /\ img.body = "images" /\ img.requests = 1
                   /\ Len(img.result.data) = Len(img.images)
                   /\ \A i \in 1..Len(img.images) :
                         img.images[i] # "" /\ img.result.data[i][2] = img.images[i]

\* C38 witness: the response's second image was an empty string and the call
\* returned a failure after one request.
C38_Witness ==
    /\ img.pc = "returned"
    /\ img.requests = 1
    /\ img.images = <<"iVBOR", "">>
    /\ ~img.result.success
    /\ img.result.error = "Empty base64 string in Venice AI response"

\* C39 (as claimed): at most one updateAllPhrases batch is in flight at any
\* time, the initial batch started in onInit included.
C39_OneBatchInFlight ==
    Cardinality({b \in BatchIds : npc.inflight[b] # {}}) <= 1
====
